---- MODULE Spec2Model ----
(***************************************************************************)
(* A model of the Telegram summary bot worker (src/src/index.ts, first     *)
(* module of the file, with src/src/config.ts).                            *)
(*                                                                         *)
(* Time is counted in seconds of Asia/Shanghai wall-clock time; the code   *)
(* counts milliseconds, and every duration it uses is a whole number of    *)
(* seconds.  Day0 is a local midnight.                                     *)
(*                                                                         *)
(* A string the code builds or inspects by its prefix (a message content,  *)
(* a message link) is a sequence of tokens, so that startsWith and         *)
(* concatenation are those of the sequence.                                *)
(***************************************************************************)
EXTENDS Integers, Sequences, FiniteSets, TLC

VARIABLES
    now,          \* Date.now(), in seconds
    store,        \* table Messages: primary key id -> row
    cache,        \* caches.default entry under cacheKey
    pendingPut,   \* the detached cache.put handed to ctx.waitUntil
    pendingImages,\* the detached image DELETE handed to ctx.waitUntil
    pc,           \* position of the scheduled() invocation
    groups,       \* local `groups` of scheduled()
    idx,          \* loop index `id` of scheduled()
    log,          \* what the current invocation has done so far, in order
    tickNo,       \* number of cron triggers fired so far
    faults,       \* number of failures the environment has produced so far
    cycleSnaps,   \* snapshot lists used by the ticks of the current hour
    cycleTicks,   \* ticks of the current hour that have started
    cycleVisited, \* group ids whose model call was made in the current hour, in order
    daySnaps,     \* snapshot lists used by the ticks of the current calendar day
    dayDelivered, \* group ids a delivery was attempted for today
    dayRepeated,  \* group ids a delivery was attempted for more than once today
    dayTrims,     \* row-cap trims triggered today
    dayImages,    \* image deletions triggered today
    dayFromStart, \* the model has seen the current calendar day from its 00:00 tick on
    ingested,     \* the last write a webhook handler issued: <<groupId, messageId, content>>
    request,      \* the command update the last command handler was called with
    input,        \* the text function applied last and its argument
    output        \* what that function returned

vars == <<now, store, cache, pendingPut, pendingImages, pc, groups, idx, log, tickNo,
          faults, cycleSnaps, cycleTicks, cycleVisited, daySnaps,
          dayDelivered, dayRepeated, dayTrims, dayImages, dayFromStart, ingested,
                   request, input, output>>

(***************************************************************************)
(* Program constants                                                       *)
(***************************************************************************)
ShardCount == 10
MinutesPerBatch == 6
RetentionWindowMinutes == 6
CacheMaxAge == 10000
ActiveGroupMinCount == 10
RowCapLiteral == 3000
dailySummaryMessageThreshold == 10
messageCleanupThreshold == 5000
DayLen == 24 * 3600
imageRetentionPeriod == 2 * 24 * 60 * 60
\* cronConfig.skipSummaryGroupIds is [-1001687785734]; the model keeps the
\* supergroup prefix -100 and the first digits, to stay within 32-bit integers.
SkipGroupId == -1001687
skipSummaryGroupIds == {SkipGroupId}
\* The keywords are Chinese words (check-in, clock-in, search), written here in pinyin.
IGNORED_KEYWORDS == {<<"qiandao">>, <<"daka">>, <<"chazhao">>}
ImagePrefix == "data:image/jpeg;base64,"

\* The cron trigger: one tick every MinutesPerBatch minutes.
CronPeriod == MinutesPerBatch * 60

(***************************************************************************)
(* Bounds of the model                                                     *)
(***************************************************************************)
MaxTicks == 30
NumGroups == 12
MaxFaults == 1
MaxMessageId == 2
MaxSegments == 4
MaxTextLen == 2
MaxFoldLen == 4
MaxOrdinal == 120

Day0 == 4 * DayLen
StartTime == Day0 - CronPeriod

(***************************************************************************)
(* Helpers                                                                 *)
(***************************************************************************)
Abs(n) == IF n < 0 THEN -n ELSE n

DigitChar(d) == <<"0", "1", "2", "3", "4", "5", "6", "7", "8", "9">>[d + 1]

RECURSIVE Digits(_)
\* Number.prototype.toString() of a non-negative integer, one token per digit
Digits(n) == IF n < 10 THEN <<DigitChar(n)>> ELSE Append(Digits(n \div 10), DigitChar(n % 10))

StartsWith(s, p) == Len(s) >= Len(p) /\ SubSeq(s, 1, Len(p)) = p

\* getMessageLink: the link is https://t.me/c/<processedId>/<messageId>
getMessageLink(groupId, messageId) ==
    LET groupIdStr == IF groupId < 0 THEN <<"-">> \o Digits(Abs(groupId))
                      ELSE Digits(groupId)
        processedId == IF StartsWith(groupIdStr, <<"-", "1", "0", "0">>)
                       THEN SubSeq(groupIdStr, 5, Len(groupIdStr))
                       ELSE Digits(Abs(groupId))
    IN  <<"https://t.me/c/">> \o processedId \o <<"/">> \o Digits(messageId)

\* The prefix in another case of its ASCII letters, as a text message can carry it.
ImagePrefixUpper == "DATA:IMAGE/JPEG;BASE64,"

\* The case folding of SQLite's LIKE, which compares ASCII letters without their case.
AsciiLower(piece) == IF piece = ImagePrefixUpper THEN ImagePrefix ELSE piece

\* content LIKE 'data:image/jpeg;base64,%'
IsImage(content) == Len(content) >= 1 /\ AsciiLower(content[1]) = ImagePrefix

Row(g, m, c, t) == [groupId |-> g, messageId |-> m, content |-> c, timeStamp |-> t]

Rows == {store[i] : i \in DOMAIN store}

\* INSERT OR REPLACE INTO Messages ...
InsertOrReplace(s, id, row) ==
    [i \in DOMAIN s \cup {id} |-> IF i = id THEN row ELSE s[i]]

\* INSERT INTO Messages ...: a row with this primary key makes the statement fail
InsertFails(s, id) == id \in DOMAIN s

\* SELECT * FROM Messages WHERE groupId=? AND timeStamp >= ?
WindowIds(g, since) ==
    {i \in DOMAIN store : store[i].groupId = g /\ store[i].timeStamp >= since}

NoneIngested == <<>>

NoInput == [fn |-> "none", arg |-> <<>>]

NoRequest == [command |-> "none", chat |-> 0, from |-> 0, words |-> <<>>]

(***************************************************************************)
(* scheduled(): time, shards, snapshot                                     *)
(***************************************************************************)
getHours(t) == (t \div 3600) % 24
getMinutes(t) == (t \div 60) % 60

\* date.getHours() === 0 && date.getMinutes() < 6
InRetentionWindow(t) == getHours(t) = 0 /\ getMinutes(t) < RetentionWindowMinutes

\* A shard index computed over twice the cron period (a variant of Batch).
BatchOverTwoPeriods(minutes) == minutes \div (2 * MinutesPerBatch)

\* The remainder taken for the quotient (a variant of Batch).
BatchRemainder(minutes) == minutes % MinutesPerBatch

\* const batch = Math.floor(date.getMinutes() / 6)
Batch(minutes) == minutes \div MinutesPerBatch

\* The shard test on the one-based list position (a variant of InShard).
InShardOneBased(id, batch) == (id + 1) % ShardCount = batch

\* id % 10 !== batch
InShard(id, batch) == id % ShardCount = batch

\* The next list position whatever its shard (a variant of NextInShard).
NextInList(list, from, batch) == IF from < Len(list) THEN from ELSE Len(list)

\* The first list position from `from` on that passes `id % 10 !== batch`, or the
\* length of the list when the loop runs out.
NextInShard(list, from, batch) ==
    LET rest == {id \in from..(Len(list) - 1) : InShard(id, batch)}
    IN  IF rest = {} THEN Len(list)
        ELSE CHOOSE id \in rest : \A other \in rest : id <= other

\* The first position of token tok in seq.
IndexOf(seq, tok) == CHOOSE i \in DOMAIN seq : seq[i] = tok /\ \A j \in 1..(i - 1) : seq[j] # tok

DigitValue(c) == CHOOSE d \in 0..9 : DigitChar(d) = c

RECURSIVE ParseDigits(_)
ParseDigits(seq) ==
    IF seq = <<>> THEN 0
    ELSE 10 * ParseDigits(SubSeq(seq, 1, Len(seq) - 1)) + DigitValue(seq[Len(seq)])

\* A JSON number, written and read back
JsonNumber(n) == IF n < 0 THEN <<"-">> \o Digits(-n) ELSE Digits(n)
ParseNumber(seq) == IF seq[1] = "-" THEN -ParseDigits(Tail(seq)) ELSE ParseDigits(seq)

RECURSIVE JsonStringify(_)
\* JSON.stringify(groups): one object {groupId, message_count} per list element, in order
JsonStringify(list) ==
    IF list = <<>> THEN <<>>
    ELSE <<"{">> \o JsonNumber(list[1].groupId) \o <<",">>
            \o JsonNumber(list[1].message_count) \o <<"}">> \o JsonStringify(Tail(list))

\* The elements of a stored body read back in reverse (a variant of JsonParse).
RECURSIVE JsonParseReversed(_)
JsonParseReversed(body) ==
    IF body = <<>> THEN <<>>
    ELSE LET close == IndexOf(body, "}")
             comma == IndexOf(body, ",")
         IN  Append(JsonParseReversed(SubSeq(body, close + 1, Len(body))),
                    [groupId |-> ParseNumber(SubSeq(body, 2, comma - 1)),
                     message_count |-> ParseNumber(SubSeq(body, comma + 1, close - 1))])

RECURSIVE JsonParse(_)
\* cachedResponse.json()
JsonParse(body) ==
    IF body = <<>> THEN <<>>
    ELSE LET close == IndexOf(body, "}")
             comma == IndexOf(body, ",")
         IN  CHOOSE list \in
                 {<<[groupId |-> ParseNumber(SubSeq(body, 2, comma - 1)),
                    message_count |-> ParseNumber(SubSeq(body, comma + 1, close - 1))]>>
                     \o JsonParse(rest) : rest \in {SubSeq(body, close + 1, Len(body))}} : TRUE

\* No entry under cacheKey.  `body` is the stored response body, `source` the list it
\* was written from.
None == [present |-> FALSE, body |-> <<>>, source |-> <<>>, expires |-> 0]

CacheHit == cache.present /\ now < cache.expires

\* WITH MessageCounts AS (SELECT groupId, COUNT(*) ... WHERE timeStamp >= since GROUP BY groupId)
MessageCounts(since) ==
    LET ids == {i \in DOMAIN store : store[i].timeStamp >= since}
    IN  [g \in {store[i].groupId : i \in ids} |->
            Cardinality({i \in ids : store[i].groupId = g})]

RECURSIVE OrderedByCount(_, _)
\* ORDER BY message_count DESC: every order of the rows the statement allows
OrderedByCount(S, counts) ==
    IF S = {} THEN {<<>>}
    ELSE LET top == {g \in S : \A h \in S : counts[g] >= counts[h]}
         IN  UNION {{<<[groupId |-> g, message_count |-> counts[g]]>> \o rest :
                         rest \in OrderedByCount(S \ {g}, counts)} : g \in top}

\* The query with `message_count >= 10` (a variant of ActiveGroupLists).
ActiveGroupListsAtLeast ==
    LET counts == MessageCounts(now - DayLen)
    IN  OrderedByCount({g \in DOMAIN counts : counts[g] >= ActiveGroupMinCount}, counts)

\* SELECT groupId, message_count FROM MessageCounts WHERE message_count > 10 ORDER BY ...
ActiveGroupLists ==
    LET counts == MessageCounts(now - DayLen)
    IN  OrderedByCount({g \in DOMAIN counts : counts[g] > ActiveGroupMinCount}, counts)

RECURSIVE Orders(_)
\* Every order of the elements of a set.
Orders(S) ==
    IF S = {} THEN {<<>>}
    ELSE UNION {{<<x>> \o rest : rest \in Orders(S \ {x})} : x \in S}

RECURSIVE AscendingOrders(_, _, _)
\* ORDER BY timeStamp ASC of the given rows, whose timeStamp is in lo..hi: every order
\* the statement allows (rows of equal timeStamp come in any order).
AscendingOrders(rows, lo, hi) ==
    IF rows = {} THEN {<<>>}
    ELSE IF lo >= hi THEN Orders(rows)
    ELSE LET mid == (lo + hi) \div 2
         IN  {a \o b : a \in AscendingOrders({r \in rows : r.timeStamp <= mid}, lo, mid),
                       b \in AscendingOrders({r \in rows : r.timeStamp > mid}, mid + 1, hi)}

RECURSIVE NewestSets(_, _, _, _)
\* ORDER BY timeStamp DESC LIMIT n over the given rows, whose timeStamp is in lo..hi:
\* every set of n rows (of all rows, if they are fewer) the statement may rank first.
NewestSets(rows, lo, hi, n) ==
    IF Cardinality(rows) <= n THEN {rows}
    ELSE IF n <= 0 THEN {{}}
    ELSE IF lo >= hi THEN {K \in SUBSET rows : Cardinality(K) = n}
    ELSE LET mid == (lo + hi) \div 2
             newer == {r \in rows : r.timeStamp > mid}
         IN  IF Cardinality(newer) >= n THEN NewestSets(newer, mid + 1, hi, n)
             ELSE {newer \cup K : K \in NewestSets(rows \ newer, lo, mid, n - Cardinality(newer))}

\* WHERE groupId=?
GroupRows(g) == {r \in Rows : r.groupId = g}

RECURSIVE RankedKeeps(_, _)
\* ROW_NUMBER() OVER (PARTITION BY groupId ORDER BY timeStamp DESC): the sets of rows
\* whose row_num is at most cap, one ranking for each group of G.
RankedKeeps(G, cap) ==
    IF G = {} THEN {{}}
    ELSE LET g == CHOOSE h \in G : TRUE
         IN  {K \cup rest : K \in NewestSets(GroupRows(g), 0, now, cap),
                            rest \in RankedKeeps(G \ {g}, cap)}

\* DELETE ... WHERE row_num > 3000, row_num ranking each group's rows newest first
TrimResults(cap) ==
    {[i \in {j \in DOMAIN store : store[j] \in K} |-> store[i]] :
        K \in RankedKeeps({r.groupId : r \in Rows}, cap)}

\* DELETE FROM Messages WHERE timeStamp < ?1 AND content LIKE 'data:image/jpeg;base64,%'
ImageDeleteResult(cutoff) ==
    LET keep == {i \in DOMAIN store : ~(store[i].timeStamp < cutoff /\ IsImage(store[i].content))}
    IN  [i \in keep |-> store[i]]

\* The membership test on the id without its sign (a variant of IsSkipped).
IsSkippedUnsigned(groupId) == Abs(groupId) \in skipSummaryGroupIds

\* cronConfig.skipSummaryGroupIds.includes(parseInt(group.groupId as string))
IsSkipped(groupId) == groupId \in skipSummaryGroupIds

Ev(op, g, n) == [op |-> op, g |-> g, n |-> n]

Has(op) == \E k \in DOMAIN log : log[k].op = op
HasFor(op, g) == \E k \in DOMAIN log : log[k].op = op /\ log[k].g = g

(***************************************************************************)
(* scheduled(): one cron invocation, step by step                          *)
(***************************************************************************)
NewCycle == Batch(getMinutes(now)) = 0
NewDay == InRetentionWindow(now)

\* The cron trigger fires and scheduled() computes `date`.
scheduledStart ==
    /\ pc = "idle"
    /\ tickNo < MaxTicks
    /\ ~pendingPut.present
    /\ ~pendingImages
    /\ tickNo' = tickNo + 1
    /\ log' = <<>>
    /\ groups' = <<>>
    /\ idx' = 0
    /\ pc' = IF InRetentionWindow(now) THEN "trim" ELSE "snapshot"
    /\ cycleSnaps' = IF NewCycle THEN {} ELSE cycleSnaps
    /\ cycleTicks' = IF NewCycle THEN 1 ELSE cycleTicks + 1
    /\ cycleVisited' = IF NewCycle THEN <<>> ELSE cycleVisited
    /\ daySnaps' = IF NewDay THEN {} ELSE daySnaps
    /\ dayDelivered' = IF NewDay THEN {} ELSE dayDelivered
    /\ dayRepeated' = IF NewDay THEN {} ELSE dayRepeated
    /\ dayTrims' = IF NewDay THEN 0 ELSE dayTrims
    /\ dayImages' = IF NewDay THEN 0 ELSE dayImages
    /\ dayFromStart' = (dayFromStart \/ NewDay)
    /\ UNCHANGED <<now, store, cache, pendingPut, pendingImages, faults, ingested,
                   request, input, output>>

\* await env.DB.prepare(`DELETE ... row_num > 3000`).run(), awaited and not caught
RowCapTrim ==
    /\ pc = "trim"
    /\ dayTrims' = dayTrims + 1
    /\ \/ /\ \E s \in TrimResults(RowCapLiteral) : store' = s
          /\ log' = Append(log, Ev("trim", 0, 0))
          /\ pc' = "snapshot"
          /\ UNCHANGED faults
       \/ /\ faults < MaxFaults
          /\ faults' = faults + 1
          /\ log' = Append(log, Ev("trim_failed", 0, 0))
          /\ pc' = "threw"
          /\ UNCHANGED store
    /\ UNCHANGED <<now, cache, pendingPut, pendingImages, groups, idx, tickNo, cycleSnaps,
                   cycleTicks, cycleVisited, daySnaps, dayDelivered, dayRepeated, dayImages,
                   dayFromStart, ingested,
                   request, input, output>>

UseSnapshot(list) ==
    /\ groups' = list
    /\ idx' = NextInShard(list, 0, Batch(getMinutes(now)))
    /\ cycleSnaps' = cycleSnaps \cup {list}
    /\ daySnaps' = daySnaps \cup {list}
    /\ pc' = "loop"

\* cache.match(cacheKey); on a miss the active-groups query and the detached cache.put
Snapshot ==
    /\ pc = "snapshot"
    /\ \/ /\ CacheHit
          /\ UseSnapshot(JsonParse(cache.body))
          /\ log' = Append(log, Ev("cache_hit", 0, 0))
          /\ UNCHANGED <<pendingPut, faults>>
       \/ /\ ~CacheHit
          /\ \E list \in ActiveGroupLists :
                /\ UseSnapshot(list)
                /\ pendingPut' = [present |-> TRUE, groups |-> list]
          /\ log' = log \o <<Ev("query", 0, 0), Ev("put", 0, 0)>>
          /\ UNCHANGED faults
       \/ /\ ~CacheHit
          /\ faults < MaxFaults
          /\ faults' = faults + 1
          /\ log' = Append(log, Ev("query_failed", 0, 0))
          /\ pc' = "threw"
          /\ UNCHANGED <<groups, idx, cycleSnaps, daySnaps, pendingPut>>
    /\ UNCHANGED <<now, store, cache, pendingImages, tickNo, cycleTicks, cycleVisited,
                   dayDelivered, dayRepeated, dayTrims, dayImages, dayFromStart, ingested,
                   request, input, output>>

\* The entry a settled cache.put leaves under cacheKey.
CachedEntry == [present |-> TRUE, body |-> JsonStringify(pendingPut.groups),
                source |-> pendingPut.groups, expires |-> now + CacheMaxAge]

\* The cache.put awaited by scheduled(): its rejection leaves the invocation (a variant
\* of CachePutSettle).
CachePutAwaited ==
    /\ pendingPut.present
    /\ pendingPut' = [present |-> FALSE, groups |-> <<>>]
    /\ \/ /\ cache' = CachedEntry
          /\ UNCHANGED <<faults, log, pc>>
       \/ /\ faults < MaxFaults
          /\ faults' = faults + 1
          /\ log' = Append(log, Ev("put_failed", 0, 0))
          /\ pc' = "threw"
          /\ UNCHANGED cache
    /\ UNCHANGED <<now, store, pendingImages, groups, idx, tickNo, cycleSnaps,
                   cycleTicks, cycleVisited, daySnaps, dayDelivered, dayRepeated, dayTrims,
                   dayImages, dayFromStart, ingested,
                   request, input, output>>

\* The detached cache.put settles: the entry is stored with s-maxage, or the put fails
\* and its rejection reaches nobody.
CachePutSettle ==
    /\ pendingPut.present
    /\ pendingPut' = [present |-> FALSE, groups |-> <<>>]
    /\ \/ /\ cache' = CachedEntry
          /\ UNCHANGED <<faults, log>>
       \/ /\ faults < MaxFaults
          /\ faults' = faults + 1
          /\ log' = Append(log, Ev("put_failed", 0, 0))
          /\ UNCHANGED cache
    /\ UNCHANGED <<now, store, pendingImages, pc, groups, idx, tickNo, cycleSnaps,
                   cycleTicks, cycleVisited, daySnaps, dayDelivered, dayRepeated, dayTrims,
                   dayImages, dayFromStart, ingested,
                   request, input, output>>

Throw(events) ==
    /\ faults < MaxFaults
    /\ faults' = faults + 1
    /\ log' = log \o events
    /\ pc' = "threw"
    /\ UNCHANGED <<idx, cycleVisited, dayDelivered, dayRepeated>>

\* The model call returned: the loop goes on to the next list position of the shard.
Visited(g) ==
    /\ idx' = NextInShard(groups, idx + 1, Batch(getMinutes(now)))
    /\ cycleVisited' = Append(cycleVisited, g)

\* fetch(.../sendMessage) was issued for g.
Delivered(g) ==
    /\ dayDelivered' = dayDelivered \cup {g}
    /\ dayRepeated' = IF g \in dayDelivered THEN dayRepeated \cup {g} ELSE dayRepeated

\* One iteration of `for (const [id, group] of groups.entries())` that passes the
\* shard test `id % 10 !== batch`; the iterations that `continue` there do nothing.
ProcessGroup ==
    /\ pc = "loop"
    /\ idx < Len(groups)
    /\ LET g == groups[idx + 1].groupId
           n == Cardinality(WindowIds(g, now - DayLen))
           window == Ev("window", g, n)
           model == Ev("model", g, n)
       IN  \/ Throw(<<Ev("window_failed", g, 0)>>)
           \/ Throw(<<window, Ev("model_failed", g, n)>>)
           \/ /\ IsSkipped(g)
              /\ log' = log \o <<window, model, Ev("skip", g, 0)>>
              /\ Visited(g)
              /\ UNCHANGED <<pc, faults, dayDelivered, dayRepeated>>
           \/ /\ ~IsSkipped(g)
              /\ log' = log \o <<window, model, Ev("send", g, n)>>
              /\ Visited(g)
              /\ Delivered(g)
              /\ UNCHANGED <<pc, faults>>
           \/ /\ ~IsSkipped(g)
              /\ faults < MaxFaults
              /\ faults' = faults + 1
              /\ log' = log \o <<window, model, Ev("send_not_ok", g, n)>>
              /\ Visited(g)
              /\ Delivered(g)
              /\ UNCHANGED pc
           \/ /\ ~IsSkipped(g)
              /\ Throw(<<window, model, Ev("send_threw", g, n)>>)
    /\ UNCHANGED <<now, store, cache, pendingPut, pendingImages, groups, tickNo, cycleSnaps,
                   cycleTicks, daySnaps, dayTrims, dayImages, dayFromStart, ingested,
                   request, input, output>>

\* After the loop: in the retention window the image DELETE is handed to ctx.waitUntil.
AfterLoop ==
    /\ pc = "loop"
    /\ idx = Len(groups)
    /\ pc' = "done"
    /\ \/ /\ InRetentionWindow(now)
          /\ pendingImages' = TRUE
          /\ dayImages' = dayImages + 1
          /\ log' = Append(log, Ev("images", 0, 0))
       \/ /\ ~InRetentionWindow(now)
          /\ UNCHANGED <<pendingImages, dayImages, log>>
    /\ UNCHANGED <<now, store, cache, pendingPut, groups, idx, tickNo, faults, cycleSnaps,
                   cycleTicks, cycleVisited, daySnaps, dayDelivered, dayRepeated, dayTrims,
                   dayFromStart, ingested,
                   request, input, output>>

\* The detached image DELETE settles; its rejection reaches nobody.
ImageDeleteSettle ==
    /\ pendingImages
    /\ pendingImages' = FALSE
    /\ \/ /\ store' = ImageDeleteResult(now - imageRetentionPeriod)
          /\ UNCHANGED <<faults, log>>
       \/ /\ faults < MaxFaults
          /\ faults' = faults + 1
          /\ log' = Append(log, Ev("images_failed", 0, 0))
          /\ UNCHANGED store
    /\ UNCHANGED <<now, cache, pendingPut, pc, groups, idx, tickNo, cycleSnaps,
                   cycleTicks, cycleVisited, daySnaps, dayDelivered, dayRepeated, dayTrims,
                   dayImages, dayFromStart, ingested,
                   request, input, output>>

\* The invocation is over (returned or threw); the next trigger is one period later.
scheduledEnd ==
    /\ pc \in {"done", "threw"}
    /\ ~pendingPut.present
    /\ ~pendingImages
    /\ pc' = "idle"
    /\ now' = now + CronPeriod
    /\ UNCHANGED <<store, cache, pendingPut, pendingImages, groups, idx, log, tickNo, faults,
                   cycleSnaps, cycleTicks, cycleVisited, daySnaps, dayDelivered, dayRepeated,
                   dayTrims, dayImages, dayFromStart, ingested,
                   request, input, output>>

(***************************************************************************)
(* The scheduler's runs: a store of NumGroups active groups, one group at  *)
(* the threshold, and the cron trigger from 23:54 on.                      *)
(***************************************************************************)
SchedGroupId(k) == IF k = 1 THEN SkipGroupId ELSE -1002000 - k

\* Group k has more rows than group k + 1, but for the last two, which tie.
SchedRowCount(k) ==
    IF k > NumGroups THEN ActiveGroupMinCount
    ELSE ActiveGroupMinCount + 1 + (IF k = NumGroups THEN 0 ELSE NumGroups - 1 - k)

\* The rows of the third group leave the trailing 24 hours between 00:06 and 00:12.
SchedRowTime(k) ==
    IF k = 3 THEN Day0 + 2 * CronPeriod - DayLen - 60 ELSE Day0 - 3600

SchedRows ==
    {Row(SchedGroupId(k), m, <<"hi">>, SchedRowTime(k)) :
        k \in 1..(NumGroups + 1), m \in 1..(NumGroups + ActiveGroupMinCount)}

InitStoreSched ==
    LET rows == {r \in SchedRows :
                   \E k \in 1..(NumGroups + 1) :
                       r.groupId = SchedGroupId(k) /\ r.messageId <= SchedRowCount(k)}
               \cup {Row(SchedGroupId(2), 100, <<ImagePrefix, "old">>, Day0 - 3 * DayLen),
                      Row(SchedGroupId(2), 101, <<ImagePrefix, "new">>, Day0 - DayLen - 3600)}
    IN  [i \in {getMessageLink(r.groupId, r.messageId) : r \in rows} |->
            CHOOSE r \in rows : getMessageLink(r.groupId, r.messageId) = i]

InitSched ==
    /\ now = StartTime
    /\ store = InitStoreSched
    /\ cache = None
    /\ pendingPut = [present |-> FALSE, groups |-> <<>>]
    /\ pendingImages = FALSE
    /\ pc = "idle"
    /\ groups = <<>>
    /\ idx = 0
    /\ log = <<>>
    /\ tickNo = 0
    /\ faults = 0
    /\ cycleSnaps = {}
    /\ cycleTicks = 0
    /\ cycleVisited = <<>>
    /\ daySnaps = {}
    /\ dayDelivered = {}
    /\ dayRepeated = {}
    /\ dayTrims = 0
    /\ dayImages = 0
    /\ dayFromStart = FALSE
    /\ ingested = NoneIngested
    /\ request = NoRequest
    /\ input = NoInput
    /\ output = <<>>

NextSched ==
    \/ scheduledStart
    \/ RowCapTrim
    \/ Snapshot
    \/ CachePutSettle
    \/ ProcessGroup
    \/ AfterLoop
    \/ ImageDeleteSettle
    \/ scheduledEnd

SpecSched == InitSched /\ [][NextSched]_vars

(***************************************************************************)
(* Properties of scheduled()                                               *)
(***************************************************************************)
TickOver == pc \in {"done", "threw"}

\* The minutes of the hour at which the cron trigger fires.
TickMinutes == {m \in 0..59 : m % MinutesPerBatch = 0}

CurrentBatch == Batch(getMinutes(now))

ShardPositions == {id \in 0..(Len(groups) - 1) : InShard(id, CurrentBatch)}

PositionsOf(g) == {id \in 0..(Len(groups) - 1) : groups[id + 1].groupId = g}

SendOps == {"send", "send_not_ok", "send_threw"}

Range(seq) == {seq[k] : k \in DOMAIN seq}

\* C1: for the snapshot list of any tick, every list position is selected by exactly
\* one of the ten ticks of an hour (minutes 0, 6, ..., 54): the ten shards are
\* pairwise disjoint and their union is the whole list.
C1_ShardsPartitionSnapshot ==
    \A id \in 0..(Len(groups) - 1) :
        Cardinality({m \in TickMinutes : InShard(id, Batch(m))}) = 1

\* A tick has gone through a shard that holds two list positions (0 and 10).
C1_Witness ==
    /\ pc = "done"
    /\ Len(groups) > ShardCount
    /\ Cardinality(ShardPositions) = 2
    /\ \A id \in ShardPositions : HasFor("window", groups[id + 1].groupId)

\* C2: with a stable snapshot and a tick every 6 minutes, no group has a delivery
\* attempted twice within one calendar day, and once the day's last tick (23:54) is
\* over every group of the snapshot outside the skip list has had one.  Stated for the
\* runs in which nothing fails.
C2_EachGroupOncePerDay ==
    (faults = 0 /\ Cardinality(daySnaps) <= 1) =>
        /\ dayRepeated = {}
        /\ (dayFromStart /\ TickOver /\ getHours(now) = 23 /\ CurrentBatch = ShardCount - 1) =>
              \A list \in daySnaps : \A k \in DOMAIN list :
                  IsSkipped(list[k].groupId) \/ list[k].groupId \in dayDelivered

\* C3: when the model call for a group of the current shard fails, no message is sent
\* for that group and every later group of the same shard is still processed in the
\* same tick.
C3_ModelFailureKeepsShardGoing ==
    TickOver =>
        \A k \in DOMAIN log :
            log[k].op = "model_failed" =>
                /\ \A j \in DOMAIN log : log[j].op \in SendOps => log[j].g # log[k].g
                /\ \A id \in ShardPositions :
                      (\E own \in PositionsOf(log[k].g) : id > own) =>
                          HasFor("window", groups[id + 1].groupId)

\* C4: all ticks of one hour use the same snapshot list, no group is processed twice
\* within the hour, and after the hour's tenth tick no group of the snapshot has been
\* missed.  Stated for the runs in which nothing fails.
C4_OneSnapshotPerCycle ==
    faults = 0 =>
    /\ Cardinality(cycleSnaps) <= 1
    /\ \A j, k \in DOMAIN cycleVisited : cycleVisited[j] = cycleVisited[k] => j = k
    /\ (TickOver /\ cycleTicks = ShardCount) =>
          \A list \in cycleSnaps : \A k \in DOMAIN list :
              list[k].groupId \in Range(cycleVisited)

\* C5: a tick in which a retention pass failed still obtains the snapshot and goes
\* through its whole shard.
C5_CleanupFailureOnlyLogged ==
    (TickOver /\ (Has("trim_failed") \/ Has("images_failed"))) =>
        /\ Has("cache_hit") \/ Has("query") \/ Has("query_failed")
        /\ (~(Has("query_failed") \/ Has("window_failed") \/ Has("model_failed")
                \/ Has("send_threw"))) =>
              \A id \in ShardPositions : HasFor("model", groups[id + 1].groupId)

\* C6: in the tick of the retention window, a failure while summarizing a group of the
\* shard (window read, model call or send) does not keep either cleanup pass from
\* being started in that tick.
C6_SummaryFailureKeepsCleanup ==
    (TickOver /\ InRetentionWindow(now)
       /\ (Has("window_failed") \/ Has("model_failed") \/ Has("send_not_ok")
             \/ Has("send_threw"))) =>
        /\ Has("trim") \/ Has("trim_failed")
        /\ Has("images")

\* C7: the model is invoked, and a message sent, only for a group whose trailing
\* 24-hour window is not empty at processing time.  Stated for the runs in which
\* nothing fails.
C7_EmptyWindowSkipped ==
    faults = 0 => \A k \in DOMAIN log :
        log[k].op \in {"model", "model_failed"} \cup SendOps => log[k].n > 0

\* C8: no send request is ever issued for a group of skipSummaryGroupIds, and when the
\* loop skips such a group of the current shard it has fetched the group's window and
\* made the model call just before (budget-then-skip).
C8_SkipListBudgetThenSkip ==
    /\ \A k \in DOMAIN log :
          /\ log[k].op \in SendOps => log[k].g \notin skipSummaryGroupIds
          /\ log[k].op = "skip" =>
                /\ k > 2
                /\ log[k - 2].op = "window" /\ log[k - 2].g = log[k].g
                /\ log[k - 1].op = "model" /\ log[k - 1].g = log[k].g
    /\ pc = "done" =>
          \A id \in ShardPositions :
              groups[id + 1].groupId \in skipSummaryGroupIds =>
                  /\ HasFor("window", groups[id + 1].groupId)
                  /\ HasFor("model", groups[id + 1].groupId)
                  /\ HasFor("skip", groups[id + 1].groupId)

\* A tick has finished whose shard held a group of the skip list.
C8_Witness ==
    /\ pc = "done"
    /\ \E id \in ShardPositions : groups[id + 1].groupId \in skipSummaryGroupIds
    /\ Has("skip")

\* C11: in a tick that found the cache entry, the list scheduled() works on is the list
\* the entry was written from, element by element and in the same order, and the tick
\* issues no active-groups query and no cache write.
C11_CacheHitVerbatim ==
    Has("cache_hit") =>
        /\ groups = cache.source
        /\ ~Has("query") /\ ~Has("query_failed") /\ ~Has("put")
        /\ ~pendingPut.present

\* A tick has gone through a shard of a list of several groups it took from the cache.
C11_Witness ==
    /\ pc = "done"
    /\ Has("cache_hit")
    /\ Len(groups) > ShardCount
    /\ Has("model")

\* The groups that have rows in the store.
StoredGroups == {store[i].groupId : i \in DOMAIN store}

\* The number of rows of g with a timeStamp in the trailing 24 hours.
TrailingCount(g) == Cardinality(WindowIds(g, now - DayLen))

C13_SnapshotOrderDetermined ==
    (pc = "loop" /\ Has("query")) =>
        \A j, k \in DOMAIN groups :
            j < k =>
                \/ groups[j].message_count > groups[k].message_count
                \/ /\ groups[j].message_count = groups[k].message_count
                   /\ groups[j].groupId < groups[k].groupId

\* C14: the step in which the detached cache write settles, stored or failed, changes
\* neither the position of scheduled() nor its list, its loop index, the groups it has
\* processed or the store; and a tick that computed the list and reached its end has
\* made the model call for every group of its shard, whatever became of the write.
C14_CachePutDetached ==
    /\ [][(pendingPut.present /\ ~pendingPut'.present) =>
             UNCHANGED <<pc, groups, idx, store, cycleVisited, dayDelivered>>]_vars
    /\ []((pc = "done" /\ Has("put")) =>
             \A id \in ShardPositions : HasFor("model", groups[id + 1].groupId))

\* A tick computed the list, made a model call while the cache write was in flight,
\* the write then failed, and the tick reached its end with nothing cached.
C14_Witness ==
    /\ pc = "done"
    /\ ~cache.present
    /\ \E j, k \in DOMAIN log :
          j < k /\ log[j].op = "model" /\ log[k].op = "put_failed"
    /\ \A id \in ShardPositions : HasFor("model", groups[id + 1].groupId)

\* C9: in one calendar day each cleanup pass is triggered at most once, and from the
\* end of the day's 00:00 tick on each has been triggered exactly once.
C9_CleanupOncePerDay ==
    /\ dayTrims <= 1
    /\ dayImages <= 1
    /\ (dayFromStart /\ ~InRetentionWindow(now)) => dayTrims = 1 /\ dayImages = 1

(***************************************************************************)
(* fetch(): the webhook handlers that write to the store                   *)
(***************************************************************************)
Chats == {[id |-> -100123, type |-> "supergroup"],
          [id |-> -123, type |-> "group"],
          [id |-> 123, type |-> "private"]}

MessageIds == 1..MaxMessageId

Texts == {<<"a">>, <<"qiandao">>}

Forwards == {"", "Bob"}

\* A photo file as its bytes and their base64 text.
Files == {[bytes |-> <<255, 216, 255, 217>>, base64 |-> "/9j/2Q=="],
          [bytes |-> <<137, 80, 78, 71>>, base64 |-> "iVBORw=="]}

\* chat.type.includes('group')
IsGroupChat(type) == type \in {"group", "supergroup"}

\* isJPEGBase64: the bytes start with FF D8 and end with FF D9
isJPEGBase64(bytes) ==
    /\ Len(bytes) >= 2
    /\ bytes[1] = 255 /\ bytes[2] = 216
    /\ bytes[Len(bytes) - 1] = 255 /\ bytes[Len(bytes)] = 217

\* extractAllOGInfo(url): the link-preview text of the page
extractAllOGInfo(content) == <<"og:">> \o content

\* The content the :message handler stores for a text message (the two prefixes are
\* Chinese in the code).
MessageContent(groupId, text, fwd, replyTo) ==
    LET forwarded == IF fwd # "" THEN <<"forwarded from ", fwd, ": ">> \o text ELSE text
        replied == IF replyTo # 0
                   THEN <<"reply to ">> \o getMessageLink(groupId, replyTo) \o <<": ">> \o forwarded
                   ELSE forwarded
    IN  IF StartsWith(replied, <<"http">>) /\ " " \notin Range(replied)
        THEN extractAllOGInfo(replied)
        ELSE replied

Issued(g, m, content) == ingested' = <<g, m, content>>

\* env.DB.prepare(`INSERT [OR REPLACE] INTO Messages ...`).bind(...).run() inside
\* try/catch: the row is written, or the statement fails and the error is logged.
DbWrite(g, m, content, orReplace) ==
    LET id == getMessageLink(g, m)
    IN  \/ /\ orReplace \/ ~InsertFails(store, id)
           /\ store' = InsertOrReplace(store, id, Row(g, m, content, now))
           /\ Issued(g, m, content)
           /\ log' = <<Ev("saved", g, m)>>
           /\ UNCHANGED faults
        \/ /\ ~orReplace
           /\ InsertFails(store, id)
           /\ Issued(g, m, content)
           /\ log' = <<Ev("save_failed", g, m)>>
           /\ UNCHANGED <<store, faults>>
        \/ /\ faults < MaxFaults
           /\ faults' = faults + 1
           /\ log' = <<Ev("save_failed", g, m)>>
           /\ UNCHANGED <<store, ingested>>

NoWrite(event, g) ==
    /\ log' = <<Ev(event, g, 0)>>
    /\ UNCHANGED <<store, ingested, faults>>

webhookFrame == <<now, cache, pendingPut, pendingImages, pc, groups, idx, tickNo,
                  cycleSnaps, cycleTicks, cycleVisited, daySnaps, dayDelivered,
                  dayRepeated, dayTrims, dayImages, dayFromStart, request, input, output>>

\* .on(':message'), update_type 'message', for one update
MessageHandler(chat, m, text, fwd, replyTo) ==
    IF ~IsGroupChat(chat.type) THEN NoWrite("reply", chat.id)
    ELSE IF text \in IGNORED_KEYWORDS THEN NoWrite("ignored", chat.id)
    ELSE DbWrite(chat.id, m, MessageContent(chat.id, text, fwd, replyTo), FALSE)

\* .on(':message'), update_type 'message'
OnMessage ==
    /\ \E chat \in Chats, m \in MessageIds, text \in Texts, fwd \in Forwards,
          replyTo \in {0, 1} :
          MessageHandler(chat, m, text, fwd, replyTo)
    /\ UNCHANGED webhookFrame

\* .on(':message'), update_type 'photo'
OnPhoto ==
    /\ \E chat \in Chats, m \in MessageIds, file \in Files :
          IF ~IsGroupChat(chat.type) THEN NoWrite("reply", chat.id)
          ELSE IF ~isJPEGBase64(file.bytes) THEN NoWrite("not_jpeg", chat.id)
          ELSE DbWrite(chat.id, m, <<ImagePrefix, file.base64>>, TRUE)
    /\ UNCHANGED webhookFrame

\* .on(':edited_message')
OnEditedMessage ==
    /\ \E chat \in Chats, m \in MessageIds, text \in Texts :
          DbWrite(chat.id, m, text, TRUE)
    /\ UNCHANGED webhookFrame

InitIngest ==
    /\ now = StartTime
    /\ store = <<>>
    /\ cache = None
    /\ pendingPut = [present |-> FALSE, groups |-> <<>>]
    /\ pendingImages = FALSE
    /\ pc = "idle"
    /\ groups = <<>>
    /\ idx = 0
    /\ log = <<>>
    /\ tickNo = 0
    /\ faults = 0
    /\ cycleSnaps = {}
    /\ cycleTicks = 0
    /\ cycleVisited = <<>>
    /\ daySnaps = {}
    /\ dayDelivered = {}
    /\ dayRepeated = {}
    /\ dayTrims = 0
    /\ dayImages = 0
    /\ dayFromStart = FALSE
    /\ ingested = NoneIngested
    /\ request = NoRequest
    /\ input = NoInput
    /\ output = <<>>

NextIngest ==
    \/ OnMessage
    \/ OnPhoto
    \/ OnEditedMessage

SpecIngest == InitIngest /\ [][NextIngest]_vars

\* Texts around the keywords: each keyword alone and followed by more text, and a text
\* without a keyword.
KeywordTexts ==
    IGNORED_KEYWORDS \cup {k \o <<"a">> : k \in IGNORED_KEYWORDS} \cup {<<"a">>}

\* .on(':message') for the plain text messages of the groups
OnKeywordMessage ==
    /\ \E chat \in {c \in Chats : IsGroupChat(c.type)}, m \in MessageIds,
          text \in KeywordTexts :
          MessageHandler(chat, m, text, "", 0)
    /\ UNCHANGED webhookFrame

NextKeywords == OnKeywordMessage

SpecKeywords == InitIngest /\ [][NextKeywords]_vars

RowsOf(g, m) == {i \in DOMAIN store : store[i].groupId = g /\ store[i].messageId = m}

\* C10: after any sequence of new-message, photo and edited-message events, the store
\* holds exactly one row for the (groupId, messageId) a handler wrote last, and that
\* row holds the content of that write.  Stated for the stores that hold rows of that
\* group alone.
C10_UpsertPerMessage ==
    (ingested # NoneIngested /\ \A i \in DOMAIN store : store[i].groupId = ingested[1]) =>
        /\ Cardinality(RowsOf(ingested[1], ingested[2])) = 1
        /\ \A i \in RowsOf(ingested[1], ingested[2]) : store[i].content = ingested[3]

(***************************************************************************)
(* fetch(): the command handlers                                           *)
(***************************************************************************)
SummaryRowLimit == 4000

\* A text of some four hundred digits, which parseInt reads as Infinity.
HugeNumeral == "9999...(400 digits)"

DecimalDigits == {DigitChar(d) : d \in 0..9}

NaN == [kind |-> "NaN", value |-> 0]

RECURSIVE DigitPrefixLen(_)
\* The length of the longest prefix of s made of decimal digits.
DigitPrefixLen(s) ==
    IF s = <<>> \/ s[1] \notin DecimalDigits THEN 0 ELSE 1 + DigitPrefixLen(Tail(s))

\* parseInt(s): an optional sign, then the longest prefix of decimal digits; what
\* follows the digits is ignored, and without a digit the result is NaN.
parseInt(s) ==
    LET negative == s # <<>> /\ s[1] = "-"
        signed == s # <<>> /\ s[1] \in {"-", "+"}
        body == IF signed THEN Tail(s) ELSE s
        k == DigitPrefixLen(body)
    IN  IF body # <<>> /\ body[1] = HugeNumeral
        THEN [kind |-> IF negative THEN "-Infinity" ELSE "Infinity", value |-> 0]
        ELSE IF k = 0 THEN NaN
        ELSE [kind |-> "number",
              value |-> IF negative THEN -ParseDigits(SubSeq(body, 1, k))
                        ELSE ParseDigits(SubSeq(body, 1, k))]

EndsWith(s, tok) == s # <<>> /\ s[Len(s)] = tok

Min(a, b) == IF a < b THEN a ELSE b

\* The chats the commands are sent from.
CommandChats == {-100123, -123}

\* message.text.split(' ') of the /summary updates
SummaryTexts ==
    {<<"/summary">>} \cup
    {<<"/summary", arg>> : arg \in {<<"2">>, <<"2", "h">>, <<"4", "8", "h">>, <<"a">>, <<>>,
                                     <<"-", "5">>, <<"2", "a">>, <<HugeNumeral>>}}

\* What one run of a handler did: its steps in order, and whether the environment
\* produced a failure in it.
Run(steps, failed) == [log |-> steps, faults |-> IF failed THEN 1 ELSE 0]

\* The try block of the summary handler that tests parseInt(summary)
SummaryArgRejected(test) ==
    \/ test.kind = "NaN"
    \/ test.kind = "-Infinity" \/ (test.kind = "number" /\ test.value < 0)
    \/ test.kind = "Infinity"

\* The number of rows the summary handler retrieves.
SummaryRowCount(g, summary) ==
    LET n == parseInt(summary).value
    IN  IF EndsWith(summary, "h")
        THEN Cardinality(WindowIds(g, now - n * 3600))
        ELSE Min(Min(n, SummaryRowLimit),
                 Cardinality({i \in DOMAIN store : store[i].groupId = g}))

\* .on('summary'): the runs of the handler for an update
SummaryRuns(g, words) ==
    IF Len(words) = 1
    THEN {Run(<<Ev("usage", g, 0), Ev("ok", g, 0)>>, FALSE)}
    ELSE IF SummaryArgRejected(parseInt(words[2]))
    THEN {Run(<<Ev("usage", g, 0), Ev("ok", g, 0)>>, FALSE)}
    ELSE LET n == SummaryRowCount(g, words[2])
             select == Ev("select", g, n)
             model == Ev("model", g, n)
             ok == Ev("ok", g, 0)
         IN  {Run(<<Ev("select_failed", g, 0), Ev("threw", g, 0)>>, TRUE)} \cup
             IF n = 0 THEN {Run(<<select, ok>>, FALSE)}
             ELSE {Run(<<select, Ev("model_failed", g, n), ok>>, TRUE),
                   Run(<<select, model, Ev("reply", g, n), ok>>, FALSE),
                   Run(<<select, model, Ev("reply_not_ok", g, n), ok>>, TRUE),
                   Run(<<select, model, Ev("reply_threw", g, n), ok>>, TRUE)}

commandFrame == <<now, store, cache, pendingPut, pendingImages, pc, groups, idx, tickNo,
                  cycleSnaps, cycleTicks, cycleVisited, daySnaps, dayDelivered,
                  dayRepeated, dayTrims, dayImages, dayFromStart, ingested, input, output>>

\* A command handler is called with an update and runs to its end.
Handle(command, g, from, words, runs) ==
    /\ \E run \in runs :
          /\ faults + run.faults <= MaxFaults
          /\ faults' = faults + run.faults
          /\ log' = run.log
    /\ request' = [command |-> command, chat |-> g, from |-> from, words |-> words]
    /\ UNCHANGED commandFrame

OnSummary ==
    \E g \in CommandChats, words \in SummaryTexts :
        Handle("summary", g, 0, words, SummaryRuns(g, words))

AskRowLimit == 1000

\* message.text.split(' ') of the /ask updates
AskTexts == {<<"/ask">>, <<"/ask", <<>>>>, <<"/ask", <<"q">>>>}

\* message.from.id of the /ask updates
Users == {7, 8}

\* The number of rows the ask handler retrieves.
AskRowCount(g) == Min(AskRowLimit, Cardinality({i \in DOMAIN store : store[i].groupId = g}))

\* The ask handler with the store query made before the probe (a variant of AskRuns).
AskRunsQueryFirst(g, user, words) ==
    LET n == AskRowCount(g)
    IN  {Run(<<Ev("select", g, n), Ev("probe_rejected", user, 0),
               Ev("open_private_notice", g, 0), Ev("ok", g, 0)>>, FALSE),
         Run(<<Ev("select", g, n), Ev("probe", user, 0), Ev("model", g, n),
               Ev("answer", user, n), Ev("ok", g, 0)>>, FALSE)}

\* The ask handler with the model call outside a try block (a variant of AskRuns).
AskRunsModelUncaught(g, user, words) ==
    LET n == AskRowCount(g)
    IN  {Run(<<Ev("probe", user, 0), Ev("select", g, n), Ev("model_failed", g, n),
               Ev("threw", g, 0)>>, TRUE),
         Run(<<Ev("probe", user, 0), Ev("select", g, n), Ev("model", g, n),
               Ev("answer", user, n), Ev("ok", g, 0)>>, FALSE)}

\* The ask handler with the answer sent by ctx.reply (a variant of AskRuns).
AskRunsAnswerReplied(g, user, words) ==
    LET n == AskRowCount(g)
    IN  {Run(<<Ev("usage", g, 0), Ev("ok", g, 0)>>, FALSE),
         Run(<<Ev("probe", user, 0), Ev("select", g, n), Ev("model", g, n),
               Ev("answer", g, n), Ev("ok", g, 0)>>, FALSE)}

\* .on('ask'): the runs of the handler for an update
AskRuns(g, user, words) ==
    IF Len(words) = 1 \/ words[2] = <<>>
    THEN {Run(<<Ev("usage", g, 0), Ev("ok", g, 0)>>, FALSE)}
    ELSE LET n == AskRowCount(g)
             probe == Ev("probe", user, 0)
             select == Ev("select", g, n)
             model == Ev("model", g, n)
             ok == Ev("ok", g, 0)
         IN  {Run(<<Ev("probe_threw", user, 0), Ev("threw", g, 0)>>, TRUE),
              Run(<<Ev("probe_rejected", user, 0), Ev("open_private_notice", g, 0), ok>>, FALSE),
              Run(<<probe, Ev("select_failed", g, 0), Ev("threw", g, 0)>>, TRUE),
              Run(<<probe, select, Ev("model_failed", g, n), ok>>, TRUE),
              Run(<<probe, select, model, Ev("answer", user, n), ok>>, FALSE),
              Run(<<probe, select, model, Ev("answer_not_ok", user, n),
                    Ev("block_notice", g, 0), ok>>, FALSE),
              Run(<<probe, select, model, Ev("answer_not_ok", user, n),
                    Ev("send_failed_notice", g, 0), ok>>, FALSE),
              Run(<<probe, select, model, Ev("answer_threw", user, n), Ev("threw", g, 0)>>, TRUE)}

OnAsk ==
    \E g \in CommandChats, user \in Users, words \in AskTexts :
        Handle("ask", g, user, words, AskRuns(g, user, words))

\* The rows the commands find: three of the supergroup, none of the other chat.
InitStoreCommands ==
    LET rows == {Row(-100123, 1, <<"a">>, StartTime - 30 * 3600),
                 Row(-100123, 2, <<"b">>, StartTime - 3 * 3600),
                 Row(-100123, 3, <<"c">>, StartTime - 1800)}
    IN  [i \in {getMessageLink(r.groupId, r.messageId) : r \in rows} |->
            CHOOSE r \in rows : getMessageLink(r.groupId, r.messageId) = i]

InitCommands ==
    /\ now = StartTime
    /\ store = InitStoreCommands
    /\ cache = None
    /\ pendingPut = [present |-> FALSE, groups |-> <<>>]
    /\ pendingImages = FALSE
    /\ pc = "idle"
    /\ groups = <<>>
    /\ idx = 0
    /\ log = <<>>
    /\ tickNo = 0
    /\ faults = 0
    /\ cycleSnaps = {}
    /\ cycleTicks = 0
    /\ cycleVisited = <<>>
    /\ daySnaps = {}
    /\ dayDelivered = {}
    /\ dayRepeated = {}
    /\ dayTrims = 0
    /\ dayImages = 0
    /\ dayFromStart = FALSE
    /\ ingested = NoneIngested
    /\ request = NoRequest
    /\ input = NoInput
    /\ output = <<>>

\* message.text.split(' ') of the /query updates
QueryTexts == {<<"/query">>, <<"/query", <<"a">>>>, <<"/query", <<"z">>>>}

\* content GLOB '*term*'
GlobMatches(content, term) ==
    \E i \in 1..(Len(content) - Len(term) + 1) : SubSeq(content, i, i + Len(term) - 1) = term

QueryRowLimit == 2000

\* The number of rows the query handler retrieves.
QueryRowCount(g, term) ==
    Min(QueryRowLimit,
        Cardinality({i \in DOMAIN store :
                        store[i].groupId = g /\ GlobMatches(store[i].content, term)}))

\* .on('query'): the runs of the handler for an update
QueryRuns(g, words) ==
    IF Len(words) = 1 \/ words[2] = <<>>
    THEN {Run(<<Ev("usage", g, 0), Ev("ok", g, 0)>>, FALSE)}
    ELSE LET n == QueryRowCount(g, words[2])
         IN  {Run(<<Ev("select_failed", g, 0), Ev("threw", g, 0)>>, TRUE),
              Run(<<Ev("select", g, n), Ev("reply", g, n), Ev("ok", g, 0)>>, FALSE),
              Run(<<Ev("select", g, n), Ev("reply_not_ok", g, n), Ev("ok", g, 0)>>, TRUE)}

OnQuery ==
    \E g \in CommandChats, words \in QueryTexts :
        Handle("query", g, 0, words, QueryRuns(g, words))

NextCommands ==
    \/ OnSummary
    \/ OnAsk
    \/ OnQuery

SpecCommands == InitCommands /\ [][NextCommands]_vars

IsNumeral(s) == s # <<>> /\ \A i \in DOMAIN s : s[i] \in DecimalDigits

\* The arguments the usage message of /summary names: a count (514) or hours (114h).
WellFormedSummaryArg(arg) ==
    \/ IsNumeral(arg)
    \/ Len(arg) >= 2 /\ arg[Len(arg)] = "h" /\ IsNumeral(SubSeq(arg, 1, Len(arg) - 1))

LogOps == {log[k].op : k \in DOMAIN log}

\* C15: a /summary command whose argument is not a non-negative finite numeral (with
\* or without the hours suffix) is answered with the usage message and makes no store
\* query and no model call.  Stated for the runs in which nothing fails.
C15_MalformedSummaryRejected ==
    (faults = 0 /\ request.command = "summary" /\ Len(request.words) > 1
       /\ ~WellFormedSummaryArg(request.words[2])) =>
        /\ "usage" \in LogOps
        /\ LogOps \cap {"select", "select_failed", "model", "model_failed"} = {}

\* C16: in the ask flow every store query and every model call comes after the probe
\* message to the requester's private chat; and when the probe is rejected the handler
\* tells the requester in the group to open a private chat and ends, with no store
\* query, no model call and no answer.
C16_ProbeBeforeWork ==
    request.command = "ask" =>
        /\ \A k \in DOMAIN log :
              log[k].op \in {"select", "select_failed", "model", "model_failed",
                             "answer", "answer_not_ok", "answer_threw"} =>
                  \E j \in 1..(k - 1) : log[j].op = "probe" /\ log[j].g = request.from
        /\ "probe_rejected" \in LogOps =>
              log = <<Ev("probe_rejected", request.from, 0),
                      Ev("open_private_notice", request.chat, 0),
                      Ev("ok", request.chat, 0)>>

\* An ask command whose probe was rejected has been handled.
C16_Witness ==
    /\ request.command = "ask"
    /\ "probe_rejected" \in LogOps
    /\ "open_private_notice" \in LogOps

\* C17: an invocation in which a store query failed (a command's query, the scheduler's
\* active-groups query or window query) still completes normally: it does not end by
\* throwing.
C17_StoreFailureIsNoOp ==
    (LogOps \cap {"select_failed", "query_failed", "window_failed"} # {}) =>
        /\ pc # "threw"
        /\ "threw" \notin LogOps

(***************************************************************************)
(* The text functions.  A text is the sequence of its characters.          *)
(***************************************************************************)
\* MARKDOWN_V2_RESERVED_CHARS without the exclamation mark (a variant).  The backtick
\* is written BACKTICK.
ReservedCharsButOne ==
    {"_", "*", "[", "]", "(", ")", "~", "BACKTICK", ">", "#", "+", "-", "=", "|", "{", "}", "."}

MARKDOWN_V2_RESERVED_CHARS ==
    {"_", "*", "[", "]", "(", ")", "~", "BACKTICK", ">", "#", "+", "-", "=", "|", "{", "}", ".", "!"}

RECURSIVE escapeMarkdownV2(_)
\* text.replace(MARKDOWN_V2_ESCAPE_REGEX, '\\$1')
escapeMarkdownV2(text) ==
    IF text = <<>> THEN <<>>
    ELSE (IF text[1] \in MARKDOWN_V2_RESERVED_CHARS THEN <<"\\", text[1]>> ELSE <<text[1]>>)
             \o escapeMarkdownV2(Tail(text))

\* The superscript glyphs of the digits 0..9, written here ^0 .. ^9.
superscripts == <<"^0", "^1", "^2", "^3", "^4", "^5", "^6", "^7", "^8", "^9">>

\* The glyph of the last digit alone (a variant of toSuperscript).
toSuperscriptUnits(num) == <<superscripts[(num % 10) + 1]>>

\* num.toString().split('').map((digit) => superscripts[digit]).join('')
toSuperscript(num) ==
    LET digits == Digits(num)
    IN  [k \in DOMAIN digits |-> superscripts[DigitValue(digits[k]) + 1]]

\* options.prefix, a Chinese word (reference), written here in pinyin.
prefix == "yinyong"

\* The first position from `from` on at which text holds tok, or 0.
FirstAt(text, from, tok) ==
    LET at == {i \in from..Len(text) : text[i] = tok}
    IN  IF at = {} THEN 0 ELSE CHOOSE i \in at : \A j \in at : i <= j

\* linkPattern /\[([^\]]+)\]\(([^)]+)\)/ tried at position i of text
MatchLinkAt(text, i) ==
    LET close == FirstAt(text, i + 1, "]")
        paren == IF close = 0 THEN 0 ELSE FirstAt(text, close + 2, ")")
        ok == /\ text[i] = "["
              /\ close >= i + 2
              /\ close + 1 <= Len(text) /\ text[close + 1] = "("
              /\ paren >= close + 3
    IN  IF ok THEN [ok |-> TRUE, displayText |-> SubSeq(text, i + 1, close - 1),
                    url |-> SubSeq(text, close + 2, paren - 1), last |-> paren]
        ELSE [ok |-> FALSE, displayText |-> <<>>, url |-> <<>>, last |-> i]

\* A rewrite of every link the pattern matches (a variant of IsSelfLink).
AnyLink(displayText, url) == TRUE

\* displayText !== url
IsSelfLink(displayText, url) == displayText = url

\* The number of the link counter's last assignment (a variant of LinkNumber).
LastLinkNumber(linkMap, url) == Len(linkMap)

\* linkMap.get(url): the URLs are kept in the order they were first seen
LinkNumber(linkMap, url) == CHOOSE k \in DOMAIN linkMap : linkMap[k] = url

RECURSIVE ReplaceLinks(_, _, _)
\* text.replace(linkPattern, callback) from position i on, with the linkMap so far
ReplaceLinks(text, i, linkMap) ==
    IF i > Len(text) THEN <<>>
    ELSE LET m == MatchLinkAt(text, i)
         IN  IF ~m.ok THEN <<text[i]>> \o ReplaceLinks(text, i + 1, linkMap)
             ELSE IF ~IsSelfLink(m.displayText, m.url)
             THEN SubSeq(text, i, m.last) \o ReplaceLinks(text, m.last + 1, linkMap)
             ELSE LET seen == IF \E k \in DOMAIN linkMap : linkMap[k] = m.url
                              THEN linkMap ELSE Append(linkMap, m.url)
                  IN  <<"[", prefix>> \o toSuperscript(LinkNumber(seen, m.url))
                          \o <<"]", "(">> \o m.url \o <<")">>
                          \o ReplaceLinks(text, m.last + 1, seen)

processMarkdownLinks(text) == ReplaceLinks(text, 1, <<>>)

\* The markers around the text, with the text as it is (a variant of foldText).
foldTextUnquoted(text) == <<"*", "*", ">">> \o text \o <<"|", "|">>

RECURSIVE QuoteNewlines(_)
\* text.replace(/\n/g, '\n>')
QuoteNewlines(text) ==
    IF text = <<>> THEN <<>>
    ELSE (IF text[1] = "\n" THEN <<"\n", ">">> ELSE <<text[1]>>) \o QuoteNewlines(Tail(text))

\* '**>' + text.replace(/\n/g, '\n>') + '||'
foldText(text) == <<"*", "*", ">">> \o QuoteNewlines(text) \o <<"|", "|">>

\* The pieces the texts with links are made of: text without an opening bracket, and
\* links [label](target).
TextPiece(chars) == [kind |-> "text", label |-> chars, target |-> <<>>]
Link(label, target) == [kind |-> "link", label |-> label, target |-> target]

Pieces ==
    {TextPiece(<<"x">>), TextPiece(<<"\n">>), TextPiece(<<")">>), TextPiece(<<"]", "(">>)}
        \cup {Link(<<u>>, <<u>>) : u \in {"u", "v", "w"}}
        \cup {Link(<<"u">>, <<"v">>), Link(<<"v">>, <<"u", "v">>)}

PieceText(piece) ==
    IF piece.kind = "text" THEN piece.label
    ELSE <<"[">> \o piece.label \o <<"]", "(">> \o piece.target \o <<")">>

RECURSIVE Flatten(_)
Flatten(pieces) == IF pieces = <<>> THEN <<>> ELSE PieceText(pieces[1]) \o Flatten(Tail(pieces))

PieceLists == UNION {[1..n -> Pieces] : n \in 0..MaxSegments}

\* The characters MarkdownV2 reserves: _ * [ ] ( ) ~ ` > # + - = | { } . !
ReservedCharacters ==
    {"_", "*", "[", "]", "(", ")", "~", "BACKTICK", ">", "#", "+", "-", "=", "|", "{", "}", ".", "!"}

EscapeAlphabet == ReservedCharacters \cup {"a", "\\", "\n"}

EscapeTexts == UNION {[1..n -> EscapeAlphabet] : n \in 0..MaxTextLen}

\* The ordinals toSuperscript is applied to.
Ordinals == 0..MaxOrdinal

\* The texts foldText is applied to: letters, newlines and the characters of the markers.
FoldTexts == UNION {[1..n -> {"a", "\n", ">", "|", "*"}] : n \in 0..MaxFoldLen}

textFrame == <<now, store, cache, pendingPut, pendingImages, groups, idx, log, tickNo,
               faults, cycleSnaps, cycleTicks, cycleVisited, daySnaps, dayDelivered,
               dayRepeated, dayTrims, dayImages, dayFromStart, ingested, request, input>>

\* The calls of the text functions: the function and its argument.
TextCalls ==
    {[fn |-> "processMarkdownLinks", arg |-> pieces] : pieces \in PieceLists}
        \cup {[fn |-> "escapeMarkdownV2", arg |-> text] : text \in EscapeTexts}
        \cup {[fn |-> "foldText", arg |-> text] : text \in FoldTexts}
        \cup {[fn |-> "toSuperscript", arg |-> num] : num \in Ordinals}

\* The call has returned.
Returned == pc = "returned"

\* processMarkdownLinks runs on the text of the call.
ApplyProcessMarkdownLinks ==
    /\ pc = "call"
    /\ input.fn = "processMarkdownLinks"
    /\ output' = processMarkdownLinks(Flatten(input.arg))
    /\ pc' = "returned"
    /\ UNCHANGED textFrame

\* escapeMarkdownV2 runs on the text of the call.
ApplyEscapeMarkdownV2 ==
    /\ pc = "call"
    /\ input.fn = "escapeMarkdownV2"
    /\ output' = escapeMarkdownV2(input.arg)
    /\ pc' = "returned"
    /\ UNCHANGED textFrame

\* foldText runs on the text of the call.
ApplyFoldText ==
    /\ pc = "call"
    /\ input.fn = "foldText"
    /\ output' = foldText(input.arg)
    /\ pc' = "returned"
    /\ UNCHANGED textFrame

\* toSuperscript runs on the ordinal of the call.
ApplyToSuperscript ==
    /\ pc = "call"
    /\ input.fn = "toSuperscript"
    /\ output' = toSuperscript(input.arg)
    /\ pc' = "returned"
    /\ UNCHANGED textFrame

InitText ==
    /\ now = StartTime
    /\ store = <<>>
    /\ cache = None
    /\ pendingPut = [present |-> FALSE, groups |-> <<>>]
    /\ pendingImages = FALSE
    /\ pc = "call"
    /\ groups = <<>>
    /\ idx = 0
    /\ log = <<>>
    /\ tickNo = 0
    /\ faults = 0
    /\ cycleSnaps = {}
    /\ cycleTicks = 0
    /\ cycleVisited = <<>>
    /\ daySnaps = {}
    /\ dayDelivered = {}
    /\ dayRepeated = {}
    /\ dayTrims = 0
    /\ dayImages = 0
    /\ dayFromStart = FALSE
    /\ ingested = NoneIngested
    /\ request = NoRequest
    /\ input \in TextCalls
    /\ output = <<>>

NextText ==
    \/ ApplyProcessMarkdownLinks
    \/ ApplyEscapeMarkdownV2
    \/ ApplyFoldText
    \/ ApplyToSuperscript

SpecText == InitText /\ [][NextText]_vars

\* The self-identical links of a list of pieces, in order.
SelfLinks(pieces) ==
    SelectSeq(pieces, LAMBDA p : p.kind = "link" /\ p.label = p.target)

\* The ordinal of the k-th self-identical link: one more than the number of distinct
\* targets seen before the first occurrence of its own target.
FirstSeenOrdinal(links, k) ==
    LET first == CHOOSE j \in 1..k : links[j].target = links[k].target
                                       /\ \A h \in 1..(j - 1) : links[h].target # links[k].target
    IN  Cardinality({links[h].target : h \in 1..first})

RECURSIVE RewrittenLinks(_)
\* The links of a text whose label starts with the prefix, as <<ordinal glyphs, target>>.
RewrittenLinks(text) ==
    IF Len(text) < 2 THEN <<>>
    ELSE IF text[1] = "[" /\ text[2] = prefix
    THEN LET close == FirstAt(text, 3, "]")
             paren == FirstAt(text, close + 2, ")")
         IN  <<<<SubSeq(text, 3, close - 1), SubSeq(text, close + 2, paren - 1)>>>>
                 \o RewrittenLinks(SubSeq(text, paren + 1, Len(text)))
    ELSE RewrittenLinks(Tail(text))

\* C18: the rewritten links of the output are, in order, the self-identical links of
\* the input, each as [<prefix><superscript ordinal>](U) with the ordinal its URL got in
\* first-seen order starting at 1 (the same URL the same ordinal, distinct URLs distinct
\* consecutive ordinals).  Stated for the texts made of links and of text without '['.
C18_OrdinalsFirstSeen ==
    (Returned /\ input.fn = "processMarkdownLinks") =>
        LET links == SelfLinks(input.arg)
            rewritten == RewrittenLinks(output)
        IN  /\ Len(rewritten) = Len(links)
            /\ \A k \in DOMAIN links :
                  /\ rewritten[k][2] = links[k].target
                  /\ rewritten[k][1] = <<superscripts[FirstSeenOrdinal(links, k) + 1]>>

\* A text with the links u, v, u, all self-identical, has been rewritten.
C18_Witness ==
    /\ Returned
    /\ input.fn = "processMarkdownLinks"
    /\ LET links == SelfLinks(input.arg)
       IN  /\ Len(links) >= 3
           /\ links[1].target = links[3].target
           /\ links[1].target # links[2].target
    /\ Len(RewrittenLinks(output)) >= 3

RECURSIVE WithoutRewritten(_)
\* A text with each link whose label starts with the prefix replaced by a mark.
WithoutRewritten(text) ==
    IF text = <<>> THEN <<>>
    ELSE IF Len(text) >= 2 /\ text[1] = "[" /\ text[2] = prefix
    THEN <<"<self>">> \o WithoutRewritten(SubSeq(text, FirstAt(text, 1, ")") + 1, Len(text)))
    ELSE <<text[1]>> \o WithoutRewritten(Tail(text))

RECURSIVE WithoutSelfLinks(_)
\* The text of a list of pieces with each self-identical link replaced by a mark.
WithoutSelfLinks(pieces) ==
    IF pieces = <<>> THEN <<>>
    ELSE (IF pieces[1].kind = "link" /\ pieces[1].label = pieces[1].target
          THEN <<"<self>">> ELSE PieceText(pieces[1])) \o WithoutSelfLinks(Tail(pieces))

\* C19: every link whose label differs from its target and all text outside links are
\* in the output unchanged and at their place: but for the self-identical links, the
\* output is the input.  Stated for the texts made of links and of text without '['.
C19_OtherTextUnchanged ==
    (Returned /\ input.fn = "processMarkdownLinks") =>
        WithoutRewritten(output) = WithoutSelfLinks(input.arg)

\* A text with a link whose label differs from its target, a self-identical link after
\* it and text around them has been processed, and the self-identical link got ordinal 1.
C19_Witness ==
    /\ Returned
    /\ input.fn = "processMarkdownLinks"
    /\ \E j, k \in DOMAIN input.arg :
          /\ j < k
          /\ input.arg[j].kind = "link" /\ input.arg[j].label # input.arg[j].target
          /\ input.arg[k].kind = "link" /\ input.arg[k].label = input.arg[k].target
    /\ \E k \in DOMAIN input.arg : input.arg[k].kind = "text"
    /\ RewrittenLinks(output) # <<>>
    /\ RewrittenLinks(output)[1][1] = <<superscripts[2]>>

RECURSIVE WithoutEscapes(_)
\* A text without the backslashes that stand before a reserved character.
WithoutEscapes(text) ==
    IF text = <<>> THEN <<>>
    ELSE IF Len(text) >= 2 /\ text[1] = "\\" /\ text[2] \in ReservedCharacters
    THEN <<text[2]>> \o WithoutEscapes(SubSeq(text, 3, Len(text)))
    ELSE <<text[1]>> \o WithoutEscapes(Tail(text))

\* C20: in the output of escapeMarkdownV2 every reserved character stands right after
\* a backslash, the output is longer than the input by the number of reserved
\* characters of the input, and without those backslashes it is the input.
C20_ReservedEscaped ==
    (Returned /\ input.fn = "escapeMarkdownV2") =>
        /\ \A i \in DOMAIN output :
              output[i] \in ReservedCharacters => (i > 1 /\ output[i - 1] = "\\")
        /\ Len(output) = Len(input.arg)
              + Cardinality({i \in DOMAIN input.arg : input.arg[i] \in ReservedCharacters})
        /\ WithoutEscapes(output) = input.arg

\* A text with a reserved character and another character has been escaped.
C20_Witness ==
    /\ Returned
    /\ input.fn = "escapeMarkdownV2"
    /\ \E i, j \in DOMAIN input.arg :
          input.arg[i] \in ReservedCharacters /\ input.arg[j] \notin ReservedCharacters
    /\ Len(output) > Len(input.arg)

\* The positions of a text at which a line starts.
LineStarts(text) == {1} \cup {i + 1 : i \in {j \in DOMAIN text : text[j] = "\n"}}

\* The lines of a folded text that carry the quote marker: the first line with the
\* opening marker, a later line with '>'.
QuotedLineStarts(text) ==
    {s \in LineStarts(text) :
        \/ s = 1 /\ Len(text) >= 3 /\ SubSeq(text, 1, 3) = <<"*", "*", ">">>
        \/ s > 1 /\ s <= Len(text) /\ text[s] = ">"}

Newlines(text) == {i \in DOMAIN text : text[i] = "\n"}

\* C21: the output of foldText starts with '**>' and ends with '||', it has the
\* newlines of the input and each of them is followed by '>', and the number of its
\* quote-prefixed lines is the number of newlines of the input plus one.
C21_FoldMarkers ==
    (Returned /\ input.fn = "foldText") =>
        /\ Len(output) >= 5
        /\ SubSeq(output, 1, 3) = <<"*", "*", ">">>
        /\ SubSeq(output, Len(output) - 1, Len(output)) = <<"|", "|">>
        /\ Cardinality(Newlines(output)) = Cardinality(Newlines(input.arg))
        /\ \A i \in Newlines(output) : output[i + 1] = ">"
        /\ Cardinality(QuotedLineStarts(output)) = Cardinality(Newlines(input.arg)) + 1

\* A text of several lines, one of them empty, has been folded.
C21_Witness ==
    /\ Returned
    /\ input.fn = "foldText"
    /\ Cardinality(Newlines(input.arg)) >= 2
    /\ \E i \in Newlines(input.arg) : i + 1 \in Newlines(input.arg)
    /\ Cardinality(QuotedLineStarts(output)) >= 3

RECURSIVE DecimalDigitsOf(_)
\* The decimal digits of an ordinal, most significant first.
DecimalDigitsOf(n) ==
    IF n < 10 THEN <<n>> ELSE Append(DecimalDigitsOf(n \div 10), n % 10)

\* C26: toSuperscript gives an ordinal 0..9 its one glyph and an ordinal from 10 on
\* the glyphs of its decimal digits in order; the ten glyphs differ, and no other
\* ordinal renders to the same string.
C26_SuperscriptDigitwise ==
    (Returned /\ input.fn = "toSuperscript") =>
        LET digits == DecimalDigitsOf(input.arg)
        IN  /\ Len(output) = Len(digits)
            /\ \A k \in DOMAIN digits : output[k] = superscripts[digits[k] + 1]
            /\ input.arg < 10 => Len(output) = 1
            /\ \A c, d \in 1..10 : c # d => superscripts[c] # superscripts[d]
            /\ \A m \in Ordinals : m # input.arg => toSuperscript(m) # output

\* The ordinal 12 has been rendered as the glyph of 1 followed by the glyph of 2.
C26_Witness ==
    /\ Returned
    /\ input.fn = "toSuperscript"
    /\ input.arg = 12
    /\ output = <<superscripts[2], superscripts[3]>>

(***************************************************************************)
(* Outbound texts: what the handlers and scheduled() apply, stage after    *)
(* stage, to a text before they send it.                                   *)
(***************************************************************************)
MaxReplyPieces == 3
MaxResults == 2

\* aiConfig.model, 'gemini-2.0-flash'
aiConfigModel == <<"gemini", "-", "2", ".", "0", "-", "flash">>

\* botConfig.repoUrl
repoUrl == <<"https://github", ".", "com/asukaminato0721/telegram", "-", "summary", "-", "bot">>

\* telegramifyMarkdown(content, 'keep') of the telegramify-markdown package: the text
\* outside links and the label of a link have their reserved characters escaped, the
\* target of a link is kept.
telegramifyMarkdown(pieces) ==
    Flatten([k \in DOMAIN pieces |->
                IF pieces[k].kind = "text"
                THEN TextPiece(escapeMarkdownV2(pieces[k].label))
                ELSE Link(escapeMarkdownV2(pieces[k].label), pieces[k].target)])

RECURSIVE ReplaceAll(_, _, _)
\* text.replace(/pattern/g, replacement) for a pattern that is a fixed text
ReplaceAll(text, pattern, replacement) ==
    IF Len(text) < Len(pattern) THEN text
    ELSE IF SubSeq(text, 1, Len(pattern)) = pattern
    THEN replacement \o ReplaceAll(SubSeq(text, Len(pattern) + 1, Len(text)), pattern, replacement)
    ELSE <<text[1]>> \o ReplaceAll(Tail(text), pattern, replacement)

\* text.replace(/tme\.cat/g, 't.me/c').replace(/\/c\/c/g, '/c')
fixLink(text) ==
    ReplaceAll(ReplaceAll(text, <<"t", "m", "e", ".", "c", "a", "t">>,
                          <<"t", ".", "m", "e", "/", "c">>),
               <<"/", "c", "/", "c">>, <<"/", "c">>)

\* messageTemplate(s); the words of the attribution are Chinese in the code.
messageTemplate(s) ==
    <<"xiamian you shechi de ">> \o escapeMarkdownV2(aiConfigModel)
        \o <<" gaikuo qunliao xinxi", "\n">> \o s
        \o <<"\n", "ben kaiyuan xiangmu", "[", "dizhi", "]", "(">>
        \o escapeMarkdownV2(repoUrl) \o <<")">>

\* `[link](https://t.me/c/${parseInt(r.groupId.slice(2))}/${r.messageId})`
QueryLink(r) ==
    LET groupIdStr == IF r.groupId < 0 THEN <<"-">> \o Digits(Abs(r.groupId))
                      ELSE Digits(r.groupId)
        sliced == parseInt(SubSeq(groupIdStr, 3, Len(groupIdStr)))
    IN  <<"[", "link", "]", "(", "https://t", ".", "me/c/">>
            \o (IF sliced.kind = "number" THEN Digits(sliced.value) ELSE <<"NaN">>)
            \o <<"/">> \o Digits(r.messageId) \o <<")">>

\* `${r.userName}: ${r.content} ${r.messageId === null ? '' : `[link](...)`}`; a row
\* without messageId has 0 here.
QueryLine(r) ==
    <<"user", ": ">> \o r.content \o <<" ">> \o (IF r.messageId = 0 THEN <<>> ELSE QueryLink(r))

RECURSIVE JoinLines(_)
\* lines.join('\n')
JoinLines(lines) ==
    IF lines = <<>> THEN <<>>
    ELSE IF Len(lines) = 1 THEN lines[1]
    ELSE lines[1] \o <<"\n">> \o JoinLines(Tail(lines))

\* The template literal of the query reply (its heading is Chinese in the code).
QueryReply(results) ==
    <<"chaxun jieguo:", "\n">> \o JoinLines([k \in DOMAIN results |-> QueryLine(results[k])])

\* The stages a flow applies to its text, the innermost call first.
Pipeline(flow) ==
    IF flow \in {"scheduled", "summary"}
    THEN <<"telegramifyMarkdown", "processMarkdownLinks", "fixLink", "foldText",
           "messageTemplate">>
    ELSE IF flow = "ask"
    THEN <<"telegramifyMarkdown", "processMarkdownLinks", "foldText">>
    ELSE <<"QueryReply", "escapeMarkdownV2">>

\* What a stage makes of the text handed to it.
StageResult(stage, text) ==
    CASE stage = "telegramifyMarkdown" -> telegramifyMarkdown(text)
      [] stage = "processMarkdownLinks" -> processMarkdownLinks(text)
      [] stage = "fixLink" -> fixLink(text)
      [] stage = "foldText" -> foldText(text)
      [] stage = "messageTemplate" -> messageTemplate(text)
      [] stage = "QueryReply" -> QueryReply(text)
      [] stage = "escapeMarkdownV2" -> escapeMarkdownV2(text)

\* result.choices[0].message.content: markdown made of text and links.
ModelPieces ==
    {TextPiece(<<"x">>), TextPiece(<<".">>), TextPiece(<<"\n">>),
     Link(<<"u">>, <<"u">>), Link(<<"t", ".", "m">>, <<"t", ".", "m">>),
     Link(<<"r">>, <<"t", "m", "e", ".", "c", "a", "t", "/", "c", "/", "1">>)}

ModelTexts == UNION {[1..n -> ModelPieces] : n \in 0..MaxReplyPieces}

\* The rows a query finds.
ResultRows ==
    {Row(-100123, m, c, StartTime - 60) : m \in 1..2, c \in {<<"a">>, <<"a", ".", "b">>}}

ResultLists == UNION {[1..n -> ResultRows] : n \in 0..MaxResults}

OutboundCalls ==
    {[fn |-> flow, arg |-> text] : flow \in {"scheduled", "summary", "ask"}, text \in ModelTexts}
        \cup {[fn |-> "query", arg |-> results] : results \in ResultLists}

outboundFrame == <<now, store, cache, pendingPut, pendingImages, groups, tickNo,
                   faults, cycleSnaps, cycleTicks, cycleVisited, daySnaps, dayDelivered,
                   dayRepeated, dayTrims, dayImages, dayFromStart, ingested, request, input>>

\* The next stage of the flow is applied to the text.
ApplyStage ==
    /\ pc = "compose"
    /\ idx < Len(Pipeline(input.fn))
    /\ LET stage == Pipeline(input.fn)[idx + 1]
       IN  /\ output' = StageResult(stage, output)
           /\ log' = Append(log, Ev(stage, 0, idx + 1))
    /\ idx' = idx + 1
    /\ UNCHANGED pc
    /\ UNCHANGED outboundFrame

\* The text is handed to sendMessage / reply with parse_mode MarkdownV2.
SendText ==
    /\ pc = "compose"
    /\ idx = Len(Pipeline(input.fn))
    /\ pc' = "sent"
    /\ UNCHANGED <<idx, log, output>>
    /\ UNCHANGED outboundFrame

InitOutbound ==
    /\ now = StartTime
    /\ store = <<>>
    /\ cache = None
    /\ pendingPut = [present |-> FALSE, groups |-> <<>>]
    /\ pendingImages = FALSE
    /\ pc = "compose"
    /\ groups = <<>>
    /\ idx = 0
    /\ log = <<>>
    /\ tickNo = 0
    /\ faults = 0
    /\ cycleSnaps = {}
    /\ cycleTicks = 0
    /\ cycleVisited = <<>>
    /\ daySnaps = {}
    /\ dayDelivered = {}
    /\ dayRepeated = {}
    /\ dayTrims = 0
    /\ dayImages = 0
    /\ dayFromStart = FALSE
    /\ ingested = NoneIngested
    /\ request = NoRequest
    /\ input \in OutboundCalls
    /\ output = input.arg

NextOutbound ==
    \/ ApplyStage
    \/ SendText

SpecOutbound == InitOutbound /\ [][NextOutbound]_vars

Sent == pc = "sent"

\* The places of a stage in the order of application.
StagePlaces(stages) == {k \in DOMAIN log : log[k].op \in stages}

\* The stages that escape reserved characters of the text handed to them.
EscapingStages == {"telegramifyMarkdown", "escapeMarkdownV2"}

\* C22: the text of a summary (scheduled or /summary) goes through link deduplication,
\* then markup escaping, then folding, then the attribution template, in this order.
C22_DedupEscapeFoldTemplate ==
    (Sent /\ input.fn \in {"scheduled", "summary"}) =>
        \E d \in StagePlaces({"processMarkdownLinks"}), e \in StagePlaces(EscapingStages),
           f \in StagePlaces({"foldText"}), t \in StagePlaces({"messageTemplate"}) :
            d < e /\ e < f /\ f < t

\* The places of a text at which a link with the given label starts, its brackets and
\* its opening parenthesis unescaped.
BotLinkStarts(text, label) ==
    {i \in DOMAIN text :
        /\ text[i] = "["
        /\ i = 1 \/ text[i - 1] # "\\"
        /\ i + 3 <= Len(text)
        /\ text[i + 1] = label /\ text[i + 2] = "]" /\ text[i + 3] = "("}

\* C23: a text that is sent has gone through one escaping stage, and the links the bot
\* itself builds arrive with their brackets and parentheses unescaped: the link of the
\* attribution template, and one [link](url) for each result of a query.
C23_EscapedOnceLinksKept ==
    Sent =>
        /\ Cardinality(StagePlaces(EscapingStages)) = 1
        /\ input.fn \in {"scheduled", "summary"} =>
              Cardinality(BotLinkStarts(output, "dizhi")) = 1
        /\ input.fn = "query" =>
              Cardinality(BotLinkStarts(output, "link"))
                  = Cardinality({k \in DOMAIN input.arg : input.arg[k].messageId # 0})

StartsWithKeyword(content) == \E k \in IGNORED_KEYWORDS : StartsWith(content, k)

\* C24: no row of the store holds a group text message that starts with a keyword of
\* IGNORED_KEYWORDS.
C24_KeywordPrefixIgnored ==
    \A i \in DOMAIN store : ~StartsWithKeyword(store[i].content)

(***************************************************************************)
(* The row-cap trim of the 00:00 tick on stores with a group around the    *)
(* cap.                                                                    *)
(***************************************************************************)
MaxSmallRows == 7

\* The message id of a row's primary key.
MessageIdOf(id) == ParseDigits(SubSeq(id, IndexOf(id, "/") + 1, Len(id)))

\* The rows of the large group were written in an order that is not the order of their
\* message ids; the two oldest carry the same timeStamp.
BulkRowTime(m) ==
    IF m <= 2 THEN Day0 - 30000 ELSE Day0 - 20000 + ((m * 7919) % 8009)

\* A store that holds the rows 1..n of group g.
GroupStore(g, n) ==
    [i \in {getMessageLink(g, m) : m \in 1..n} |->
        Row(g, MessageIdOf(i), <<"hi">>, BulkRowTime(MessageIdOf(i)))]

\* The row counts of the large group: around the literal of the statement and around
\* cronConfig.messageCleanupThreshold.
TrimSizes ==
    {RowCapLiteral - 1, RowCapLiteral, RowCapLiteral + 1,
     messageCleanupThreshold, messageCleanupThreshold + 1}

TrimStores ==
    {GroupStore(SchedGroupId(2), n) @@ GroupStore(SchedGroupId(3), k) :
        n \in TrimSizes, k \in 0..MaxSmallRows}

InitTrim ==
    /\ now = Day0
    /\ store \in TrimStores
    /\ cache = None
    /\ pendingPut = [present |-> FALSE, groups |-> <<>>]
    /\ pendingImages = FALSE
    /\ pc = "idle"
    /\ groups = <<>>
    /\ idx = 0
    /\ log = <<>>
    /\ tickNo = 0
    /\ faults = 0
    /\ cycleSnaps = {}
    /\ cycleTicks = 0
    /\ cycleVisited = <<>>
    /\ daySnaps = {}
    /\ dayDelivered = {}
    /\ dayRepeated = {}
    /\ dayTrims = 0
    /\ dayImages = 0
    /\ dayFromStart = FALSE
    /\ ingested = NoneIngested
    /\ request = NoRequest
    /\ input = NoInput
    /\ output = <<>>

\* scheduled() up to the end of its DELETE statement.
NextTrim ==
    \/ scheduledStart
    \/ RowCapTrim

SpecTrim == InitTrim /\ [][NextTrim]_vars

\* The trim statement has run.
Trimmed == pc = "trim" /\ pc' = "snapshot"

\* What the trim left of group g, the store before it being s and after it t.
KeptWithinCap(s, t, g) ==
    LET before == {i \in DOMAIN s : s[i].groupId = g}
        after == {i \in DOMAIN t : t[i].groupId = g}
        keptTimes == {t[i].timeStamp : i \in after}
    IN  /\ after \subseteq before
        /\ \A i \in after : t[i] = s[i]
        /\ Cardinality(after) <= messageCleanupThreshold
        /\ Cardinality(before) <= messageCleanupThreshold => after = before
        /\ after # {} =>
              LET oldestKept == CHOOSE u \in keptTimes : \A v \in keptTimes : u <= v
              IN  \A i \in before \ after : s[i].timeStamp <= oldestKept

\* C25: the row-cap trim leaves every group at most cronConfig.messageCleanupThreshold
\* rows, the rows it leaves are rows the group had and no older than any row it removed,
\* and a group with no more rows than the cap keeps them all.
C25_TrimKeepsNewestCap ==
    [][Trimmed => \A g \in {store[i].groupId : i \in DOMAIN store} :
                      KeptWithinCap(store, store', g)]_vars

(***************************************************************************)
(* The scheduler's runs on the store of NumGroups active groups and on a   *)
(* store of two active groups.                                             *)
(***************************************************************************)
\* Group 100 with twelve rows and group 200 with eleven, all of the last hour.
TwoGroupStore ==
    LET rows == {Row(100, m, <<"hi">>, Day0 - 3600) : m \in 1..(ActiveGroupMinCount + 2)}
                    \cup {Row(200, m, <<"hi">>, Day0 - 3600) : m \in 1..(ActiveGroupMinCount + 1)}
    IN  [i \in {getMessageLink(r.groupId, r.messageId) : r \in rows} |->
            CHOOSE r \in rows : getMessageLink(r.groupId, r.messageId) = i]

InitShards ==
    /\ now = StartTime
    /\ store \in {InitStoreSched, TwoGroupStore}
    /\ cache = None
    /\ pendingPut = [present |-> FALSE, groups |-> <<>>]
    /\ pendingImages = FALSE
    /\ pc = "idle"
    /\ groups = <<>>
    /\ idx = 0
    /\ log = <<>>
    /\ tickNo = 0
    /\ faults = 0
    /\ cycleSnaps = {}
    /\ cycleTicks = 0
    /\ cycleVisited = <<>>
    /\ daySnaps = {}
    /\ dayDelivered = {}
    /\ dayRepeated = {}
    /\ dayTrims = 0
    /\ dayImages = 0
    /\ dayFromStart = FALSE
    /\ ingested = NoneIngested
    /\ request = NoRequest
    /\ input = NoInput
    /\ output = <<>>

SpecShards == InitShards /\ [][NextSched]_vars

\* The loop of the current invocation has been reached.
InLoop == pc \in {"loop", "done", "threw"} /\ ~Has("trim_failed") /\ ~Has("query_failed")

\* What the loop does for a group it does not skip at the shard test.
GroupOps == {"window", "window_failed", "model", "model_failed", "skip",
             "send", "send_not_ok", "send_threw"}

\* The groups the loop has handled in the current invocation.
Handled == {log[k].g : k \in {j \in DOMAIN log : log[j].op \in GroupOps}}

\* C27: the shard index is floor(minute-of-hour / 6), a number in 0..9; the loop handles
\* the group at zero-based list position i only if i mod 10 is that index, and a tick
\* that ends normally has handled every such group; of a two-group list, the group at
\* position 0 is handled only in shard 0 and the group at position 1 only in shard 1.
C27_ShardByPositionModTen ==
    InLoop =>
        LET shard == getMinutes(now) \div MinutesPerBatch
        IN  /\ shard \in 0..(ShardCount - 1)
            /\ \A g \in Handled : \E i \in PositionsOf(g) : i % ShardCount = shard
            /\ pc = "done" =>
                  \A i \in 0..(Len(groups) - 1) :
                      (i % ShardCount = shard) => groups[i + 1].groupId \in Handled
            /\ Len(groups) = 2 =>
                  /\ groups[1].groupId \in Handled => shard = 0
                  /\ groups[2].groupId \in Handled => shard = 1

\* A tick of shard 1 on the two-group list has ended: it handled group 200 at position
\* 1 and not group 100 at position 0.
C27_Witness ==
    /\ pc = "done"
    /\ Len(groups) = 2
    /\ groups[1].groupId = 100 /\ groups[2].groupId = 200
    /\ getMinutes(now) \div MinutesPerBatch = 1
    /\ Handled = {200}
    /\ Has("send")

\* The places of the log at which one of the given operations was done for group g.
OpPlaces(ops, g) == {k \in DOMAIN log : log[k].op \in ops /\ log[k].g = g}

\* C28: within one tick the loop does nothing for a group outside the current shard;
\* for a group of the shard it makes at most one window query, one model call and one
\* send request; and it handles the groups one after the other in the order of the
\* snapshot list.
C28_OneAttemptInListOrder ==
    InLoop =>
        /\ \A g \in Handled : PositionsOf(g) \cap ShardPositions # {}
        /\ \A id \in 0..(Len(groups) - 1) :
              id \notin ShardPositions => OpPlaces(GroupOps, groups[id + 1].groupId) = {}
        /\ \A g \in Handled :
              /\ Cardinality(OpPlaces({"window", "window_failed"}, g)) <= 1
              /\ Cardinality(OpPlaces({"model", "model_failed"}, g)) <= 1
              /\ Cardinality(OpPlaces(SendOps \cup {"skip"}, g)) <= 1
        /\ \A j, k \in DOMAIN log :
              (j < k /\ log[j].op \in GroupOps /\ log[k].op \in GroupOps
                 /\ log[j].g # log[k].g) =>
                  \A a \in PositionsOf(log[j].g), b \in PositionsOf(log[k].g) : a < b

\* A tick has ended whose shard holds two of more than ten groups: both got their model
\* call and their send request, the one earlier in the list first.
C28_Witness ==
    /\ pc = "done"
    /\ Len(groups) > ShardCount
    /\ Cardinality(Handled) = 2
    /\ \A g \in Handled : Cardinality(OpPlaces({"model"}, g)) = 1
                            /\ Cardinality(OpPlaces({"send"}, g)) = 1
    /\ \E j, k \in DOMAIN log : j < k /\ log[j].op = "send" /\ log[k].op = "window"

(***************************************************************************)
(* The most-recent-N retrievals of the summary and ask handlers on stores  *)
(* with a group around the row limits.                                     *)
(***************************************************************************)
MaxExcess == 1

Reverse(seq) == [k \in 1..Len(seq) |-> seq[Len(seq) + 1 - k]]

\* The inner SELECT alone, newest first (a variant of LatestN).
LatestDescending(g, n) ==
    {Reverse(a) :
        a \in UNION {AscendingOrders(K, 0, now) : K \in NewestSets(GroupRows(g), 0, now, n)}}

\* WITH latest_n AS (SELECT * FROM Messages WHERE groupId=? ORDER BY timeStamp DESC
\* LIMIT ?) SELECT * FROM latest_n ORDER BY timeStamp ASC: every result the statement
\* allows.
LatestN(g, n) ==
    UNION {AscendingOrders(K, 0, now) : K \in NewestSets(GroupRows(g), 0, now, n)}

\* .bind(groupId, Math.min(parseInt(summary), 4000))
SummaryLatest(g, summary) == LatestN(g, Min(parseInt(summary).value, SummaryRowLimit))

\* ... LIMIT 1000 ... .bind(groupId)
AskLatest(g) == LatestN(g, AskRowLimit)

\* The row counts of the requested group: none, a few, and around the limit of the
\* command.
RetrieveSizes(command) ==
    (0..MaxSmallRows) \cup
        {(IF command = "ask" THEN AskRowLimit ELSE SummaryRowLimit) + d : d \in -1..MaxExcess}

\* The requested group with its rows, and three rows of another group.
RetrieveStores(command) ==
    {GroupStore(-100123, n) @@ GroupStore(-123, 3) : n \in RetrieveSizes(command)}

\* The counts asked of /summary.
RetrieveCounts == {0, 1, 2} \cup {SummaryRowLimit + d : d \in -1..MaxExcess}

RetrieveRequests ==
    {[command |-> "summary", chat |-> -100123, from |-> 0,
      words |-> <<"/summary", Digits(n)>>] : n \in RetrieveCounts}
        \cup {[command |-> "ask", chat |-> -100123, from |-> 7, words |-> <<"/ask", <<"q">>>>]}

retrieveFrame == <<now, store, cache, pendingPut, pendingImages, groups, idx, log, tickNo,
                   faults, cycleSnaps, cycleTicks, cycleVisited, daySnaps, dayDelivered,
                   dayRepeated, dayTrims, dayImages, dayFromStart, ingested, request, input>>

\* The summary handler's count query returns its rows.
RetrieveForSummary ==
    /\ pc = "call"
    /\ request.command = "summary"
    /\ output' \in SummaryLatest(request.chat, request.words[2])
    /\ pc' = "returned"
    /\ UNCHANGED retrieveFrame

\* The ask handler's query returns its rows.
RetrieveForAsk ==
    /\ pc = "call"
    /\ request.command = "ask"
    /\ output' \in AskLatest(request.chat)
    /\ pc' = "returned"
    /\ UNCHANGED retrieveFrame

InitRetrieve ==
    /\ now = StartTime
    /\ request \in RetrieveRequests
    /\ store \in RetrieveStores(request.command)
    /\ cache = None
    /\ pendingPut = [present |-> FALSE, groups |-> <<>>]
    /\ pendingImages = FALSE
    /\ pc = "call"
    /\ groups = <<>>
    /\ idx = 0
    /\ log = <<>>
    /\ tickNo = 0
    /\ faults = 0
    /\ cycleSnaps = {}
    /\ cycleTicks = 0
    /\ cycleVisited = <<>>
    /\ daySnaps = {}
    /\ dayDelivered = {}
    /\ dayRepeated = {}
    /\ dayTrims = 0
    /\ dayImages = 0
    /\ dayFromStart = FALSE
    /\ ingested = NoneIngested
    /\ input = NoInput
    /\ output = <<>>

NextRetrieve ==
    \/ RetrieveForSummary
    \/ RetrieveForAsk

SpecRetrieve == InitRetrieve /\ [][NextRetrieve]_vars

\* The limit of the request: min(N, 4000) for /summary N, 1000 for ask.
RequestedLimit ==
    IF request.command = "summary"
    THEN Min(ParseDigits(request.words[2]), SummaryRowLimit)
    ELSE AskRowLimit

\* C29: the retrieval returns rows of the requested group, each once, at most
\* min(N, 4000) of them for /summary N and at most 1000 for ask (all rows of the group
\* when they are fewer); they are oldest first, and no row left out is newer than a
\* row returned.
C29_NewestRowsAscending ==
    Returned =>
        LET stored == {store[i] : i \in DOMAIN store}
            ofGroup == {r \in stored : r.groupId = request.chat}
            returned == {output[k] : k \in DOMAIN output}
        IN  /\ Len(output) = Min(RequestedLimit, Cardinality(ofGroup))
            /\ Cardinality(returned) = Len(output)
            /\ returned \subseteq ofGroup
            /\ \A k \in 1..(Len(output) - 1) : output[k].timeStamp <= output[k + 1].timeStamp
            /\ output # <<>> =>
                  \A r \in ofGroup \ returned : r.timeStamp <= output[1].timeStamp

\* A /summary 4001 on a group of more than 4000 rows has returned 4000 rows.
C29_Witness ==
    /\ Returned
    /\ request.command = "summary"
    /\ ParseDigits(request.words[2]) > SummaryRowLimit
    /\ Cardinality({i \in DOMAIN store : store[i].groupId = request.chat}) > SummaryRowLimit
    /\ Len(output) = SummaryRowLimit
    /\ output[1].timeStamp < output[2].timeStamp

\* The messages that carry a summary or an answer.
ResultOps == {"reply", "reply_not_ok", "reply_threw", "answer", "answer_not_ok", "answer_threw"}

\* The /summary query of the last command found no row.
EmptyWindow ==
    /\ request.command = "summary"
    /\ \E k \in DOMAIN log : log[k].op = "select" /\ log[k].n = 0

\* C30: a /summary whose window is empty, and a /summary or an ask whose model call
\* fails, send no summary and no answer, and the handler still returns its 'ok'
\* response.
C30_NoResultStillOk ==
    (request.command \in {"summary", "ask"} /\ (EmptyWindow \/ "model_failed" \in LogOps)) =>
        /\ LogOps \cap ResultOps = {}
        /\ "threw" \notin LogOps
        /\ log[Len(log)].op = "ok"

\* The model call of an ask command failed after the probe and the query.
C30_Witness ==
    /\ request.command = "ask"
    /\ "model_failed" \in LogOps
    /\ "select" \in LogOps
    /\ log[Len(log)].op = "ok"

(***************************************************************************)
(* The image retention pass on a store that holds, beside the rows of the  *)
(* scheduler's runs, old rows of every kind.                               *)
(***************************************************************************)
\* Rows older than the retention period: a photo, a text, and a text that begins with
\* the prefix written in capitals. A photo inside the period is in InitStoreSched.
OldRows ==
    {Row(SchedGroupId(2), 102, <<"hi">>, Day0 - 3 * DayLen),
     Row(SchedGroupId(2), 103, <<ImagePrefixUpper, "x">>, Day0 - 3 * DayLen),
     Row(SchedGroupId(2), 104, <<ImagePrefix, "edge">>, Day0 - imageRetentionPeriod)}

ImageStore ==
    InitStoreSched @@
        [i \in {getMessageLink(r.groupId, r.messageId) : r \in OldRows} |->
            CHOOSE r \in OldRows : getMessageLink(r.groupId, r.messageId) = i]

InitImages ==
    /\ now = StartTime
    /\ store = ImageStore
    /\ cache = None
    /\ pendingPut = [present |-> FALSE, groups |-> <<>>]
    /\ pendingImages = FALSE
    /\ pc = "idle"
    /\ groups = <<>>
    /\ idx = 0
    /\ log = <<>>
    /\ tickNo = 0
    /\ faults = 0
    /\ cycleSnaps = {}
    /\ cycleTicks = 0
    /\ cycleVisited = <<>>
    /\ daySnaps = {}
    /\ dayDelivered = {}
    /\ dayRepeated = {}
    /\ dayTrims = 0
    /\ dayImages = 0
    /\ dayFromStart = FALSE
    /\ ingested = NoneIngested
    /\ request = NoRequest
    /\ input = NoInput
    /\ output = <<>>

SpecImages == InitImages /\ [][NextSched]_vars

\* The detached image DELETE has run to its end.
ImagesDeleted == pendingImages /\ ~pendingImages' /\ faults' = faults

\* The content starts with the image data-URI prefix.
StartsWithImagePrefix(content) == Len(content) >= 1 /\ content[1] = ImagePrefix

\* The rows the retention pass is to delete: images older than the retention period.
ExpiredImages ==
    {i \in DOMAIN store :
        /\ StartsWithImagePrefix(store[i].content)
        /\ store[i].timeStamp < now - imageRetentionPeriod}

\* C31: the image retention pass deletes exactly the rows whose content starts with the
\* image data-URI prefix and whose timeStamp is older than now minus the retention
\* period; every other row is left as it was.
C31_ImageRetentionExact ==
    [][ImagesDeleted =>
          store' = [i \in DOMAIN store \ ExpiredImages |-> store[i]]]_vars

(***************************************************************************)
(* Properties of the stored rows under the webhook handlers                *)
(***************************************************************************)
\* The (groupId, messageId) pairs the webhook updates can carry.
UpdateKeys == {<<chat.id, m>> : chat \in Chats, m \in MessageIds}

\* A write was refused by the store because of its primary key, not by a failure of the
\* environment.
WriteBlocked == log' # <<>> /\ log'[1].op = "save_failed" /\ faults' = faults

\* C32: the derivation of the id is injective on (groupId, messageId), so that a write
\* for one group never replaces a stored row of another group and is never refused
\* because of one.
C32_IdInjective ==
    [][/\ \A a, b \in UpdateKeys :
              getMessageLink(a[1], a[2]) = getMessageLink(b[1], b[2]) => a = b
       /\ \A i \in DOMAIN store : store'[i].groupId = store[i].groupId
       /\ WriteBlocked =>
              \E i \in DOMAIN store :
                  /\ store[i].groupId = ingested'[1]
                  /\ store[i].messageId = ingested'[2]]_vars

\* C34: no stored row has a content equal to a keyword of IGNORED_KEYWORDS, whatever
\* webhook events came before.
C34_NoKeywordRowStored ==
    \A i \in DOMAIN store : store[i].content \notin IGNORED_KEYWORDS

\* The ids of the chats that are groups.
GroupChatIds == {chat.id : chat \in {c \in Chats : IsGroupChat(c.type)}}

\* C35: every stored row is a row of a group chat: an update from a chat that is no
\* group never inserts or replaces a row.
C35_OnlyGroupRowsStored ==
    \A i \in DOMAIN store : store[i].groupId \in GroupChatIds

(***************************************************************************)
(* scheduled() without failures, from a state in which the cache holds a   *)
(* list written some ticks earlier                                         *)
(***************************************************************************)
LiveGroupCount == 4

\* Group k has more rows than group k + 1, but for the last two, which tie; all are
\* above the threshold.
LiveRowCount(k) ==
    ActiveGroupMinCount + 1 + (IF k >= LiveGroupCount THEN 0 ELSE LiveGroupCount - k)

\* The rows of the third group leave the trailing 24 hours between 00:06 and 00:12.
LiveStore ==
    LET rows == {Row(SchedGroupId(k), m, <<"hi">>, SchedRowTime(k)) :
                    k \in 1..(LiveGroupCount + 1), m \in 1..(ActiveGroupMinCount + LiveGroupCount)}
        kept == {r \in rows :
                    \E k \in 1..(LiveGroupCount + 1) :
                        r.groupId = SchedGroupId(k) /\ r.messageId <= LiveRowCount(k)}
    IN  [i \in {getMessageLink(r.groupId, r.messageId) : r \in kept} |->
            CHOOSE r \in kept : getMessageLink(r.groupId, r.messageId) = i]

\* How many ticks before the first one the cached list was written: so many that the
\* entry expires after the third tick, or after the eighth.
EarlierTicks == {20, 25}

\* The lists the cached entry can hold: the store of that time ranked the groups in
\* today's order or in the opposite one.
EarlierLists == ActiveGroupLists \cup {Reverse(list) : list \in ActiveGroupLists}

\* The entry cache.put left under cacheKey `ticks` ticks before StartTime.
EarlierEntry(list, ticks) ==
    [present |-> TRUE, body |-> JsonStringify(list), source |-> list,
     expires |-> StartTime - ticks * CronPeriod + CacheMaxAge]

\* No failure happens: the environment has used up the failures it may produce.
InitLive ==
    /\ now = StartTime
    /\ store = LiveStore
    /\ cache \in {None} \cup {EarlierEntry(list, ticks) :
                                 list \in EarlierLists, ticks \in EarlierTicks}
    /\ pendingPut = [present |-> FALSE, groups |-> <<>>]
    /\ pendingImages = FALSE
    /\ pc = "idle"
    /\ groups = <<>>
    /\ idx = 0
    /\ log = <<>>
    /\ tickNo = 0
    /\ faults = MaxFaults
    /\ cycleSnaps = {}
    /\ cycleTicks = 0
    /\ cycleVisited = <<>>
    /\ daySnaps = {}
    /\ dayDelivered = {}
    /\ dayRepeated = {}
    /\ dayTrims = 0
    /\ dayImages = 0
    /\ dayFromStart = FALSE
    /\ ingested = NoneIngested
    /\ request = NoRequest
    /\ input = NoInput
    /\ output = <<>>

\* The cron trigger fires every CronPeriod, and every step of an invocation and every
\* detached promise comes to its end.
Fairness ==
    /\ WF_vars(scheduledStart)
    /\ WF_vars(RowCapTrim)
    /\ WF_vars(Snapshot)
    /\ WF_vars(CachePutSettle)
    /\ WF_vars(ProcessGroup)
    /\ WF_vars(AfterLoop)
    /\ WF_vars(ImageDeleteSettle)
    /\ WF_vars(scheduledEnd)

SpecLive == InitLive /\ [][NextSched]_vars /\ Fairness

\* The groups of these runs.
LiveGroups == {SchedGroupId(k) : k \in 1..(LiveGroupCount + 1)}

\* Every group that is above the activity threshold and not in the skip list has been
\* sent a summary since the last 00:00 tick.
ActiveGroupsSent ==
    \A g \in LiveGroups \ skipSummaryGroupIds :
        TrailingCount(g) > ActiveGroupMinCount => g \in dayDelivered

\* C33: when the ticks fire every period and nothing fails, the groups that stay above
\* the activity threshold and are not in the skip list are eventually sent a summary,
\* whatever list the cache held at first and whichever list each recomputation gives.
C33_ActiveGroupEventuallySent == <>ActiveGroupsSent

\* A group is sent its first summary of the day under a recomputed list, in which its
\* shard is not the one it had in the list used before.
C33_Witness ==
    \E g \in LiveGroups :
        /\ pc = "loop"
        /\ HasFor("send", g)
        /\ g \notin dayRepeated
        /\ \E old \in daySnaps :
              /\ old # groups
              /\ \E j \in DOMAIN old, k \in DOMAIN groups :
                    /\ old[j].groupId = g
                    /\ groups[k].groupId = g
                    /\ (j - 1) % ShardCount # (k - 1) % ShardCount

(***************************************************************************)
(* Where the ask handler sends what                                        *)
(***************************************************************************)
\* The messages that carry the text the model generated for an ask.
AnswerOps == {"answer", "answer_not_ok", "answer_threw"}

\* The fixed notices of the ask handler: the usage prompt, the instruction to open the
\* private chat, the block reason, the send failure.
NoticeOps == {"usage", "open_private_notice", "block_notice", "send_failed_notice"}

\* The messages the ask handler sends.
AskSendOps ==
    AnswerOps \cup NoticeOps \cup {"probe", "probe_rejected", "probe_threw"}

\* C36: in the ask flow the text the model generated is sent with chat_id equal to the
\* requester's id and to no other chat, and what the handler sends to the chat the
\* command came from is one of its fixed notices.
C36_AnswerOnlyToRequester ==
    request.command = "ask" =>
        \A k \in DOMAIN log :
            /\ log[k].op \in AnswerOps => log[k].g = request.from
            /\ (log[k].op \in AskSendOps /\ log[k].g = request.chat) =>
                  log[k].op \in NoticeOps

\* An ask sent from a group was answered.
C36_Witness ==
    /\ request.command = "ask"
    /\ request.chat # request.from
    /\ \E k \in DOMAIN log : log[k].op = "answer" /\ log[k].g = request.from

(***************************************************************************)
(* escapeMarkdownV2 on texts that hold backslashes                         *)
(***************************************************************************)
RECURSIVE BackslashesBefore(_, _)
\* The number of consecutive backslashes that stand right before position i of text.
BackslashesBefore(text, i) ==
    IF i > 1 /\ text[i - 1] = "\\" THEN 1 + BackslashesBefore(text, i - 1) ELSE 0

\* C38: in the output of escapeMarkdownV2 every reserved character stands after an odd
\* number of consecutive backslashes, whatever backslashes the input held, and the
\* escaper applied to the output of a text with a reserved character changes it again.
C38_OddBackslashes ==
    (Returned /\ input.fn = "escapeMarkdownV2") =>
        /\ \A i \in DOMAIN output :
              output[i] \in ReservedCharacters => BackslashesBefore(output, i) % 2 = 1
        /\ (\E i \in DOMAIN input.arg : input.arg[i] \in ReservedCharacters) =>
              escapeMarkdownV2(output) # output

(***************************************************************************)
(* processMarkdownLinks called after other calls, and on its own output    *)
(***************************************************************************)
MaxLinkPieces == 3
MaxEarlierCalls == 1

\* The texts of the calls: at most MaxLinkPieces pieces.
LinkPieceLists == UNION {[1..n -> Pieces] : n \in 0..MaxLinkPieces}

\* The texts processed before the call: other groups of the tick, earlier commands.
EarlierTexts ==
    {Flatten(<<Link(<<"u">>, <<"u">>)>>),
     Flatten(<<Link(<<"v">>, <<"v">>), TextPiece(<<"x">>), Link(<<"w">>, <<"w">>)>>)}

\* A link map kept between the calls (a variant of CallLinkMap).
SharedLinkMap(earlier) == earlier

\* const linkMap = new Map<string, number>(); let linkCounter = 1: made in the call,
\* whatever the maps of the calls before held.
CallLinkMap(earlier) == <<>>

RECURSIVE LinkMapAfter(_, _, _)
\* The linkMap at the end of text.replace(linkPattern, callback) from position i on.
LinkMapAfter(text, i, linkMap) ==
    IF i > Len(text) THEN linkMap
    ELSE LET m == MatchLinkAt(text, i)
         IN  IF ~m.ok THEN LinkMapAfter(text, i + 1, linkMap)
             ELSE IF ~IsSelfLink(m.displayText, m.url)
             THEN LinkMapAfter(text, m.last + 1, linkMap)
             ELSE LinkMapAfter(text, m.last + 1,
                               IF \E k \in DOMAIN linkMap : linkMap[k] = m.url
                               THEN linkMap ELSE Append(linkMap, m.url))

\* The URLs the calls so far have put into a link map, in order.
SeenUrls ==
    LET sets == SelectSeq(log, LAMBDA ev : ev.op = "linkMap.set")
    IN  [k \in DOMAIN sets |-> sets[k].g]

\* The calls made so far.
CallsMade == Cardinality({k \in DOMAIN log : log[k].op = "call"})

\* One call of processMarkdownLinks(text): what it returns and what it puts into its map.
LinksCall(text) ==
    LET start == CallLinkMap(SeenUrls)
        end == LinkMapAfter(text, 1, start)
    IN  /\ output' = ReplaceLinks(text, 1, start)
        /\ log' = log \o <<Ev("call", <<>>, 0)>>
                      \o [k \in 1..(Len(end) - Len(start)) |->
                             Ev("linkMap.set", end[Len(start) + k], Len(start) + k)]

linksFrame == <<now, store, cache, pendingPut, pendingImages, groups, idx, tickNo,
                faults, cycleSnaps, cycleTicks, cycleVisited, daySnaps, dayDelivered,
                dayRepeated, dayTrims, dayImages, dayFromStart, ingested, request>>

\* A call for another text is made before the call in question.
EarlierCall ==
    /\ pc = "call"
    /\ CallsMade < MaxEarlierCalls
    /\ \E text \in EarlierTexts : LinksCall(text)
    /\ UNCHANGED <<pc, input>>
    /\ UNCHANGED linksFrame

\* The call in question.
CallProcessMarkdownLinks ==
    /\ pc = "call"
    /\ LinksCall(Flatten(input.arg))
    /\ pc' = "returned"
    /\ UNCHANGED input
    /\ UNCHANGED linksFrame

\* processMarkdownLinks is called on what it returned.
CallOnOutput ==
    /\ pc = "returned"
    /\ input' = [fn |-> "processMarkdownLinks", arg |-> <<TextPiece(output)>>]
    /\ LinksCall(output)
    /\ pc' = "again"
    /\ UNCHANGED linksFrame

InitLinks ==
    /\ now = StartTime
    /\ store = <<>>
    /\ cache = None
    /\ pendingPut = [present |-> FALSE, groups |-> <<>>]
    /\ pendingImages = FALSE
    /\ pc = "call"
    /\ groups = <<>>
    /\ idx = 0
    /\ log = <<>>
    /\ tickNo = 0
    /\ faults = 0
    /\ cycleSnaps = {}
    /\ cycleTicks = 0
    /\ cycleVisited = <<>>
    /\ daySnaps = {}
    /\ dayDelivered = {}
    /\ dayRepeated = {}
    /\ dayTrims = 0
    /\ dayImages = 0
    /\ dayFromStart = FALSE
    /\ ingested = NoneIngested
    /\ request = NoRequest
    /\ input \in {[fn |-> "processMarkdownLinks", arg |-> pieces] : pieces \in LinkPieceLists}
    /\ output = <<>>

NextLinks ==
    \/ EarlierCall
    \/ CallProcessMarkdownLinks
    \/ CallOnOutput

SpecLinks == InitLinks /\ [][NextLinks]_vars

\* The ordinals 1..m as the output writes them.
OrdinalGlyphs(m) == {toSuperscript(j) : j \in 1..m}

\* C37: whatever texts were processed before, a call of processMarkdownLinks numbers
\* its first self-identical link 1 and uses exactly the ordinals 1..m for the m distinct
\* URLs of its self-identical links, and a call on its own output returns that output.
C37_PerCallOrdinalsIdempotent ==
    /\ pc = "returned" =>
          LET links == SelfLinks(input.arg)
              rewritten == RewrittenLinks(output)
              m == Cardinality({links[k].target : k \in DOMAIN links})
          IN  /\ {rewritten[k][1] : k \in DOMAIN rewritten} = OrdinalGlyphs(m)
              /\ rewritten # <<>> => rewritten[1][1] = toSuperscript(1)
    /\ pc = "again" => output = Flatten(input.arg)

\* After a call for a text with the links v and w, a text with two distinct
\* self-identical links was processed, and then its output.
C37_Witness ==
    /\ pc = "again"
    /\ CallsMade = MaxEarlierCalls + 2
    /\ Len(SeenUrls) >= 4
    /\ Len(RewrittenLinks(output)) >= 2
    /\ \E k \in DOMAIN log : log[k].op = "linkMap.set" /\ log[k].n = 2

====
